---------------------------- MODULE Spec2Model ----------------------------
(***************************************************************************)
(* The MAPE-K controller of Self-Adaptive-Music-System (src/driver):       *)
(* Analyzer -> Planner -> Executor over the Knowledge limits, and the      *)
(* driver loop that composes them.                                         *)
(*                                                                         *)
(* Quantities.  Python computes CPU and memory amounts as floats:          *)
(* (requests + limits) / 2 produces halves.  To keep every amount an       *)
(* integer the model counts CPU in quanta of 62.5 millicores (configs sit   *)
(* on the 125 millicore grid, one planning step halves the grain once) and *)
(* memory in units of 256 MiB, and it never divides: averages are kept as  *)
(* sums or fractions [num, den], ratios are compared by                    *)
(* cross-multiplication.                                                   *)
(*                                                                         *)
(* mapek/knowledge.json is not part of the sources, so the thresholds,     *)
(* weights and limits below are one admissible Knowledge document; the     *)
(* names are those the components read it into.                            *)
(***************************************************************************)
EXTENDS Integers, Sequences, FiniteSets, TLC

\* ------------------------------------------------------- units and limits

\* Quanta per 250 millicores.
CpuScale == 2 * 2

\* m millicores (a multiple of 250) in quanta.
MilliCPU(m) == (m * CpuScale) \div 250

\* m MiB (a multiple of 256) in memory units.
MiB(m) == m \div 256

\* Planner.__init__: resources_limitations["single"].
min_replica == 1
max_replica == 3
min_cpu == MilliCPU(250)
max_cpu == MilliCPU(1000)
min_memory == MiB(256)
max_memory == MiB(1024)

\* The limits of cache_size (MiB) in the Knowledge document, which is not
\* among the sources: the interval the baseline configs span.  The Planner
\* reads neither (Planner.py:4-12).
min_cache_size == 0
max_cache_size == 1000

\* The step sizes of the Planner's rules.
cpu_step == MilliCPU(250)
memory_step == MiB(256)
cache_step_up == 500
cache_step_down == 100
preload_step == 2
preload_cap == 10
song_quality_cap == 3

\* The epsilon of the ROI quotient is 1e-6 = 1 / RoiEpsInv.
RoiEpsInv == 1000000

\* Python's `x in list`.
InList(x, list) == \E i \in 1..Len(list) : list[i] = x

Max(a, b) == IF a >= b THEN a ELSE b
Min(a, b) == IF a <= b THEN a ELSE b
Abs(a) == IF a >= 0 THEN a ELSE -a

\* Python's None.
None == [none |-> TRUE]

\* The number of services of a plan handed to execute_plan.
NumServices == 2

\* The services of a plan, in plan order (the order of the plan dict).
Services == SubSeq(<<"svc1", "svc2", "svc3", "svc4">>, 1, NumServices)
ServiceSet == {Services[i] : i \in 1..Len(Services)}

Config(rc, rm, lc, lm, rep, sq, cs, pl) ==
    [requests |-> [cpu |-> rc, memory |-> rm],
     limits |-> [cpu |-> lc, memory |-> lm],
     replica |-> rep, song_quality |-> sq, cache_size |-> cs,
     preload_song |-> pl]

\* ---------------------------------------------------------------- Analyzer

\* The services the driver regulates (driver.py: service_to_use).
service_to_use == <<"cartunes-app">>

\* Analyzer.__init__: window size, thresholds and weights.  CPU, memory,
\* cache-hit and disk usage are percentages, latency is in ms, error rate in
\* percent, playback latency and download time in tenths of a second;
\* weights are tenths.
window_size == 5
cpu_threshold_high == 80
cpu_threshold_low == 30
memory_threshold_high == 80
memory_threshold_low == 30
latency_avg_threshold == 200
error_rate_threshold == 5
cpu_weight == 3
memory_weight == 3
latency_weight == 2
error_rate_weight == 2
avg_playback_latency_threshold_high == 20
avg_playback_latency_threshold_low == 5
avg_download_time_threshold_high == 50
avg_download_time_threshold_low == 10
cache_hit_ratio_threshold_low == 50
disk_usage_threshold == 80

\* latency_avg / 1_000_000: nanoseconds to milliseconds.
NsPerMs == 1000000

deque_keys ==
    {"cpu_deque", "memory_deque", "latency_avg_deque", "error_rate_deque",
     "disk_usage", "cache_hit_ratio", "avg_playback_latency", "avg_download_time"}

\* The (metric, aggregation) keys process_data reads for the verdict.
M_latency == "net.request.time.in_avg"
M_request_count == "net.request.count.in_sum"
M_errors == "net.http.error.count_sum"
M_cpu == "cpu.quota.used.percent_avg"
M_memory == "memory.limit.used.percent_avg"
M_replicas == "kubernetes.deployment.replicas.available_max"
analyze_metrics == {M_latency, M_request_count, M_errors, M_cpu, M_memory, M_replicas}

\* A window that drops its newest sample, not its oldest, when full.
DequeAppendEvictingNewest(d, x) ==
    IF Len(d) >= window_size THEN Append(SubSeq(d, 1, Len(d) - 1), x) ELSE Append(d, x)

\* deque(maxlen=window_size).append: the oldest sample falls out of a full deque.
DequeAppend(d, x) ==
    IF Len(d) >= window_size THEN Append(Tail(d), x) ELSE Append(d, x)

RECURSIVE Sum(_)
Sum(d) == IF d = <<>> THEN 0 ELSE Head(d) + Sum(Tail(d))

\* sum(deque) / len(deque), as a fraction.
Mean(d) == [num |-> Sum(d), den |-> Len(d)]

\* mean > t and mean < t for an integer threshold t.
Above(m, t) == m.num > t * m.den
Below(m, t) == m.num < t * m.den

\* Analyzer._normalize_high_is_good: (value - low) / (high - low).
_normalize_high_is_good(low, high, value) ==
    [num |-> value.num - low * value.den, den |-> (high - low) * value.den]

\* Analyzer._normalize_low_is_good: max(0.0, 1.0 - min(value / high, 1.0)).
_normalize_low_is_good(high, value) ==
    LET ratio == [num |-> value.num, den |-> high * value.den]
        capped == IF ratio.num <= ratio.den THEN ratio
                  ELSE [num |-> ratio.den, den |-> ratio.den]
        one_minus == [num |-> capped.den - capped.num, den |-> capped.den]
    IN  IF one_minus.num >= 0 THEN one_minus ELSE [num |-> 0, den |-> one_minus.den]

\* The weighted sum of the four utilities (Analyzer.py:117-122).  For window
\* length n every utility has a denominator dividing
\* n * (cpu band) * (memory band) * latency threshold * error threshold;
\* the weights are tenths.
qos_utility(n, cpu_util, mem_util, latency_util, error_util) ==
    LET D == n * (cpu_threshold_high - cpu_threshold_low)
               * (memory_threshold_high - memory_threshold_low)
               * latency_avg_threshold * error_rate_threshold
        Scaled(f) == f.num * (D \div f.den)
    IN  [num |-> Scaled(cpu_util) * cpu_weight + Scaled(mem_util) * memory_weight
                 + Scaled(latency_util) * latency_weight
                 + Scaled(error_util) * error_rate_weight,
         den |-> 10 * D]

\* Local QoS health (Analyzer.py:128-145).
QosFlags(cpu_avg, memory_avg, latency_avg_avg, error_rate_avg, available_replicas) ==
    (IF Above(cpu_avg, cpu_threshold_high) THEN {"cpu_high"}
     ELSE IF Below(cpu_avg, cpu_threshold_low) THEN {"cpu_low"} ELSE {})
    \cup (IF Above(memory_avg, memory_threshold_high) THEN {"memory_high"}
          ELSE IF Below(memory_avg, memory_threshold_low) THEN {"memory_low"} ELSE {})
    \cup (IF Above(latency_avg_avg, latency_avg_threshold) THEN {"latency_avg_high"} ELSE {})
    \cup (IF Above(error_rate_avg, error_rate_threshold) THEN {"error_rate_high"} ELSE {})
    \cup (IF available_replicas <= 0 THEN {"no_replicas"} ELSE {})

\* Local QoE health (Analyzer.py:150-164).
QoeFlags(avg_playback_latency_avg, avg_download_time_avg, cache_hit_ratio_avg, disk_usage_avg) ==
    (IF Above(avg_playback_latency_avg, avg_playback_latency_threshold_high)
     THEN {"playback_latency_high"}
     ELSE IF Below(avg_playback_latency_avg, avg_playback_latency_threshold_low)
     THEN {"playback_latency_low"} ELSE {})
    \cup (IF Above(avg_download_time_avg, avg_download_time_threshold_high)
          THEN {"download_time_high"}
          ELSE IF Below(avg_download_time_avg, avg_download_time_threshold_low)
          THEN {"download_time_low"} ELSE {})
    \cup (IF Below(cache_hit_ratio_avg, cache_hit_ratio_threshold_low)
          THEN {"cache_hit_low"} ELSE {})
    \cup (IF Above(disk_usage_avg, disk_usage_threshold) THEN {"disk_usage_high"} ELSE {})

\* The tier chain with `if` in the place of `elif`: a healthy verdict also
\* runs the second test and its else.
AdaptationWithoutElif(qos_unhealthy, qoe_unhealthy, utility) ==
    (IF "no_replicas" \in qos_unhealthy THEN <<"self_heal">> ELSE <<>>)
    \o (IF qoe_unhealthy # {} THEN <<"qoe_unhealthy">> ELSE <<"qoe_healthy">>)
    \o (IF 5 * utility.num >= 4 * utility.den /\ Cardinality(qos_unhealthy) = 0
        THEN <<"qos_healthy">> ELSE <<>>)
    \o (IF 2 * utility.num < utility.den \/ Cardinality(qos_unhealthy) >= 2
        THEN <<"qos_unhealthy">> ELSE <<"qos_warning">>)

\* An Analyzer that asks for self-healing on any unhealthy QoS metric.
AdaptationSelfHealOnAnyFlag(qos_unhealthy, qoe_unhealthy, utility) ==
    (IF qos_unhealthy # {} THEN <<"self_heal">> ELSE <<>>)
    \o (IF qoe_unhealthy # {} THEN <<"qoe_unhealthy">> ELSE <<"qoe_healthy">>)
    \o (IF 5 * utility.num >= 4 * utility.den /\ Cardinality(qos_unhealthy) = 0
        THEN <<"qos_healthy">>
        ELSE IF 2 * utility.num < utility.den \/ Cardinality(qos_unhealthy) >= 2
        THEN <<"qos_unhealthy">>
        ELSE <<"qos_warning">>)

\* Adaptation flags (Analyzer.py:169-182): the ordered tag list.
Adaptation(qos_unhealthy, qoe_unhealthy, utility) ==
    (IF "no_replicas" \in qos_unhealthy THEN <<"self_heal">> ELSE <<>>)
    \o (IF qoe_unhealthy # {} THEN <<"qoe_unhealthy">> ELSE <<"qoe_healthy">>)
    \o (IF 5 * utility.num >= 4 * utility.den /\ Cardinality(qos_unhealthy) = 0
        THEN <<"qos_healthy">>
        ELSE IF 2 * utility.num < utility.den \/ Cardinality(qos_unhealthy) >= 2
        THEN <<"qos_unhealthy">>
        ELSE <<"qos_warning">>)

\* The appends of Analyzer._evaluate_metrics (Analyzer.py:57-74) to one
\* service's deques; sample holds the arguments of the call.
EvaluateAppend(deques, sample) ==
    [deques EXCEPT
        !["cpu_deque"] = DequeAppend(@, sample.cpu),
        !["memory_deque"] = DequeAppend(@, sample.memory),
        !["latency_avg_deque"] = DequeAppend(@, sample.latency_avg \div NsPerMs),
        !["error_rate_deque"] = DequeAppend(@, sample.error_rate),
        !["disk_usage"] = DequeAppend(@, sample.disk_usage),
        !["cache_hit_ratio"] = DequeAppend(@, sample.cache_hit_ratio),
        !["avg_playback_latency"] = DequeAppend(@, sample.avg_playback_latency),
        !["avg_download_time"] = DequeAppend(@, sample.avg_download_time)]

\* The result of Analyzer._evaluate_metrics, read from the deques after the
\* appends.  The confidence gate (Analyzer.py:104-107) is commented out, so a
\* result is returned whatever the fill of the window.
EvaluateResult(deques, available_replicas) ==
    LET cpu_avg == Mean(deques["cpu_deque"])
        memory_avg == Mean(deques["memory_deque"])
        latency_avg_avg == Mean(deques["latency_avg_deque"])
        error_rate_avg == Mean(deques["error_rate_deque"])
        disk_usage_avg == Mean(deques["disk_usage"])
        cache_hit_ratio_avg == Mean(deques["cache_hit_ratio"])
        avg_playback_latency_avg == Mean(deques["avg_playback_latency"])
        avg_download_time_avg == Mean(deques["avg_download_time"])
        utility == qos_utility(Len(deques["cpu_deque"]),
                      _normalize_high_is_good(cpu_threshold_low, cpu_threshold_high, cpu_avg),
                      _normalize_high_is_good(memory_threshold_low, memory_threshold_high,
                                              memory_avg),
                      _normalize_low_is_good(latency_avg_threshold, latency_avg_avg),
                      _normalize_low_is_good(error_rate_threshold, error_rate_avg))
        qos_unhealthy == QosFlags(cpu_avg, memory_avg, latency_avg_avg, error_rate_avg,
                                  available_replicas)
        qoe_unhealthy == QoeFlags(avg_playback_latency_avg, avg_download_time_avg,
                                  cache_hit_ratio_avg, disk_usage_avg)
    IN  [cpu |-> cpu_avg, memory |-> memory_avg, latency_avg |-> latency_avg_avg,
         error_rate |-> error_rate_avg, available_replicas |-> available_replicas,
         disk_usage |-> disk_usage_avg, cache_hit_ratio |-> cache_hit_ratio_avg,
         avg_playback_latency |-> avg_playback_latency_avg,
         avg_download_time |-> avg_download_time_avg,
         qos_overall_utility |-> utility,
         adaptation |-> Adaptation(qos_unhealthy, qoe_unhealthy, utility),
         qos_unhealthy_metrics |-> qos_unhealthy,
         qoe_unhealthy_metrics |-> qoe_unhealthy]

\* metric_values.get(name, 0).
Get(metric_values, name) ==
    IF name \in DOMAIN metric_values THEN metric_values[name] ELSE 0

\* errors / request_count if request_count else 0, in percent.
ErrorRate(errors, request_count) ==
    IF request_count # 0 THEN (errors * 100) \div request_count ELSE 0

\* The cache hit ratio of process_data (Analyzer.py:235-238):
\*   if hits or misses == 0: 0  else: hits / (hits + misses) * 100
\* where Python reads the condition as  hits or (misses == 0).
CacheHitRatio(hits, misses) ==
    IF hits # 0 \/ misses = 0 THEN 0 ELSE (hits * 100) \div (hits + misses)

\* The per-service values process_data collects (Analyzer.py:194-209): a
\* metric that was not fetched, or has no sample of the service, is absent
\* from the service's values.
Outputs(fetched, svc) ==
    [m \in {k \in analyze_metrics \cap DOMAIN fetched : svc \in DOMAIN fetched[k]}
        |-> fetched[m][svc]]

\* ----------------------------------------------------------------- Planner

\* The warning rules with the clamps to the limits left out.
_adopt_qos_warning_without_clamp(unhealthy_metrics, new_config) ==
    [new_config EXCEPT
        !.limits.memory = IF "memory_high" \in unhealthy_metrics THEN @ + memory_step
                          ELSE IF "memory_low" \in unhealthy_metrics THEN @ - memory_step
                          ELSE @,
        !.replica = IF "error_rate_high" \in unhealthy_metrics THEN @ + 1 ELSE @]

\* Planner._adopt_qos_warning_situation: limits-only moves.
\* Each LET step is one `if` of the method, applied in order.
_adopt_qos_warning_situation(unhealthy_metrics, new_config) ==
    LET c1 == IF "cpu_high" \in unhealthy_metrics /\ "latency_avg_high" \in unhealthy_metrics
              THEN [new_config EXCEPT !.limits.cpu = Min(@ + cpu_step, max_cpu)]
              ELSE new_config
        c2 == IF "memory_high" \in unhealthy_metrics
              THEN [c1 EXCEPT !.limits.memory = Min(@ + memory_step, max_memory)]
              ELSE c1
        c3 == IF "cpu_low" \in unhealthy_metrics
              THEN [c2 EXCEPT !.limits.cpu = Max(@ - cpu_step, min_cpu)]
              ELSE c2
        c4 == IF "memory_low" \in unhealthy_metrics
              THEN [c3 EXCEPT !.limits.memory = Max(@ - memory_step, min_memory)]
              ELSE c3
        c5 == IF /\ (c4.limits.cpu >= max_cpu \/ c4.limits.memory >= max_memory)
                 /\ ("latency_avg_high" \in unhealthy_metrics
                        \/ "error_rate_high" \in unhealthy_metrics)
              THEN [c4 EXCEPT !.replica = Min(@ + 1, max_replica)]
              ELSE c4
        c6 == IF "cpu_low" \in unhealthy_metrics /\ "memory_low" \in unhealthy_metrics
              THEN [c5 EXCEPT !.replica = Max(@ - 1, min_replica)]
              ELSE c5
    IN  c6

\* Planner._adopt_qos_unhealthy_situation: requests and limits move together.
_adopt_qos_unhealthy_situation(unhealthy_metrics, new_config) ==
    LET c1 == IF "cpu_high" \in unhealthy_metrics /\ "latency_avg_high" \in unhealthy_metrics
              THEN [new_config EXCEPT !.requests.cpu = Min(@ + cpu_step, max_cpu),
                                      !.limits.cpu = Min(@ + cpu_step, max_cpu)]
              ELSE new_config
        c2 == IF "memory_high" \in unhealthy_metrics
              THEN [c1 EXCEPT !.requests.memory = Min(@ + memory_step, max_memory),
                              !.limits.memory = Min(@ + memory_step, max_memory)]
              ELSE c1
        c3 == IF "cpu_low" \in unhealthy_metrics
              THEN [c2 EXCEPT !.requests.cpu = Max(@ - cpu_step, min_cpu),
                              !.limits.cpu = Max(@ - cpu_step, min_cpu)]
              ELSE c2
        c4 == IF "memory_low" \in unhealthy_metrics
              THEN [c3 EXCEPT !.requests.memory = Max(@ - memory_step, min_memory),
                              !.limits.memory = Max(@ - memory_step, min_memory)]
              ELSE c3
        c5 == IF /\ ("latency_avg_high" \in unhealthy_metrics
                        \/ "error_rate_high" \in unhealthy_metrics)
                 /\ ("cpu_high" \in unhealthy_metrics \/ "memory_high" \in unhealthy_metrics)
              THEN [c4 EXCEPT !.replica = Min(@ + 1, max_replica)]
              ELSE c4
        c6 == IF "cpu_low" \in unhealthy_metrics /\ "memory_low" \in unhealthy_metrics
              THEN [c5 EXCEPT !.replica = Max(@ - 1, min_replica)]
              ELSE c5
    IN  c6

\* A QoE rule step whose decrements have no floor.
_adopt_qoe_without_floor(unhealthy_metrics, new_config) ==
    LET c1 == IF "playback_latency_high" \in unhealthy_metrics
                 /\ "download_time_high" \in unhealthy_metrics
              THEN [new_config EXCEPT !.song_quality = @ - 1]
              ELSE new_config
        c2 == IF "cache_hit_low" \in unhealthy_metrics
              THEN [c1 EXCEPT !.cache_size = @ + cache_step_up]
              ELSE c1
        c3 == IF "download_time_high" \in unhealthy_metrics
                 /\ "cache_hit_low" \in unhealthy_metrics
              THEN [c2 EXCEPT !.preload_song = @ - preload_step]
              ELSE c2
    IN  c3

\* Planner._adopt_qoe_unhealthy_situation: the rule-based QoE knobs.
_adopt_qoe_unhealthy_situation(unhealthy_metrics, new_config) ==
    LET c1 == IF "playback_latency_high" \in unhealthy_metrics
                 /\ "download_time_high" \in unhealthy_metrics
              THEN [new_config EXCEPT !.song_quality = Max(@ - 1, 1)]
              ELSE new_config
        c2 == IF "playback_latency_low" \in unhealthy_metrics
                 /\ "download_time_low" \in unhealthy_metrics
              THEN [c1 EXCEPT !.song_quality = Min(@ + 1, song_quality_cap)]
              ELSE c1
        c3 == IF "cache_hit_high" \in unhealthy_metrics
              THEN [c2 EXCEPT !.cache_size = @ - cache_step_down]
              ELSE c2
        c4 == IF "cache_hit_low" \in unhealthy_metrics
              THEN [c3 EXCEPT !.cache_size = @ + cache_step_up]
              ELSE c3
        c5 == IF "download_time_high" \in unhealthy_metrics
                 /\ "cache_hit_low" \in unhealthy_metrics
              THEN [c4 EXCEPT !.preload_song = Max(@ - preload_step, 0)]
              ELSE c4
        c6 == IF "download_time_low" \in unhealthy_metrics
              THEN [c5 EXCEPT !.preload_song = Min(@ + preload_step, preload_cap)]
              ELSE c5
    IN  c6

\* a / b <= c / d and a / b < c / d for fractions [num, den] with den > 0.
RatLE(p, q) == p.num * q.den <= q.num * p.den
RatLT(p, q) == p.num * q.den < q.num * p.den

\* A domination that needs no strict improvement.
DominatesWeakly(c2, c1) ==
    /\ c2.cpu_after <= c1.cpu_after
    /\ RatLE(c2.latency_after, c1.latency_after)

\* Planner._pareto_frontier: the candidates no other candidate dominates on
\* (cpu_after, latency_after), in their original order.
Dominates(c2, c1) ==
    /\ c2.cpu_after <= c1.cpu_after
    /\ RatLE(c2.latency_after, c1.latency_after)
    /\ (c2.cpu_after < c1.cpu_after \/ RatLT(c2.latency_after, c1.latency_after))

_pareto_frontier(candidates) ==
    LET idx == SelectSeq([i \in 1..Len(candidates) |-> i],
                         LAMBDA i : ~ \E j \in 1..Len(candidates) :
                                        j # i /\ Dominates(candidates[j], candidates[i]))
    IN  [k \in 1..Len(idx) |-> candidates[idx[k]]]

\* roi = N / (T + K * 1e-6), where N, T are integers and K is the common
\* multiplier of one _decide_action call: roi1 > roi2, exactly.
RoiGreater(N1, T1, N2, T2, K) ==
    (N1 * T2 - N2 * T1) > ((-(K * (N1 - N2))) \div RoiEpsInv)

\* roi = N / (T + K * 1e-6) < thr.num / thr.den, exactly.
RoiBelow(N, T, K, thr) ==
    (thr.den * N - thr.num * T) < -((-(thr.num * K)) \div RoiEpsInv)

\* The candidate loop of _decide_action (Planner.py:72-91): for delta in
\* [-250, 0, 250], requests.cpu and limits.cpu both become the clamped
\* cpu_now + delta; latency_after = latency_now * (cpu_now / new_cpu).
\* cn2 is 2 * cpu_now; latency_now is the fraction [num, den].
Candidates(new_config, cn2, latency_now) ==
    [i \in 1..3 |->
        LET delta == <<-cpu_step, 0, cpu_step>>[i]
            new_cpu == Max(min_cpu, Min(max_cpu, (cn2 \div 2) + delta))
        IN  [cpu_after |-> new_cpu,
             latency_after |-> [num |-> latency_now.num * cn2,
                                den |-> latency_now.den * 2 * new_cpu],
             config |-> [new_config EXCEPT !.limits.cpu = new_cpu,
                                           !.requests.cpu = new_cpu]]]

\* The ROI of one frontier candidate inside the selection loop
\* (Planner.py:100-112), as [N, T] over the multiplier 5*oc2*om2*old_replica:
\* memory cost is measured from new_config.requests.memory, benefit is
\* (cpu_now - new_cpu) / old_cpu.
LoopRoi(item, config, new_config, cn2) ==
    LET oc2 == config.requests.cpu + config.limits.cpu
        om2 == config.requests.memory + config.limits.memory
        old_replica == config.replica
        new_cpu == item.cpu_after
        new_memory == new_config.requests.memory
        new_replica == new_config.replica
    IN  [N |-> 5 * Abs(cn2 - 2 * new_cpu) * om2 * old_replica,
         T |-> 2 * Abs(2 * new_cpu - oc2) * om2 * old_replica
               + 2 * Abs(2 * new_memory - om2) * oc2 * old_replica
               + Abs(new_replica - old_replica) * oc2 * om2]

\* for item in pareto: if roi > best_roi: best = cfg (best_roi starts at -1,
\* so the first item is always taken).  Returns the index of best.
RECURSIVE BestOf(_, _, _, _, _, _)
BestOf(pareto, i, best, config, new_config, cn2) ==
    IF i > Len(pareto) THEN best
    ELSE LET K == 5 * (config.requests.cpu + config.limits.cpu)
                    * (config.requests.memory + config.limits.memory) * config.replica
             r == LoopRoi(pareto[i], config, new_config, cn2)
             b == LoopRoi(pareto[best], config, new_config, cn2)
             better == best = 0 \/ RoiGreater(r.N, r.T, b.N, b.T, K)
         IN  BestOf(pareto, i + 1, IF better THEN i ELSE best, config, new_config, cn2)

\* A gate that lets every move through.
RoiNeverTooLow(config, chosen, roi_threshold) == FALSE

\* The final gate (Planner.py:121-140): roi < roi_threshold for the chosen
\* config, with cost and benefit measured on the (requests + limits) / 2
\* averages of CPU and memory.
RoiTooLow(config, chosen, roi_threshold) ==
    LET oc2 == config.requests.cpu + config.limits.cpu
        om2 == config.requests.memory + config.limits.memory
        old_replica == config.replica
        nc2 == chosen.requests.cpu + chosen.limits.cpu
        nm2 == chosen.requests.memory + chosen.limits.memory
        new_replica == chosen.replica
        N == Abs(5 * (nc2 - oc2) * om2 * old_replica + 5 * (nm2 - om2) * oc2 * old_replica)
        T == 4 * Abs(nc2 - oc2) * om2 * old_replica
             + 4 * Abs(nm2 - om2) * oc2 * old_replica
             + 2 * Abs(new_replica - old_replica) * oc2 * om2
        K == 10 * oc2 * om2 * old_replica
    IN  RoiBelow(N, T, K, roi_threshold)

NoDecision == [situation |-> "None", config |-> None]

\* A Planner that takes no verdict for a self-heal verdict.
NoSelfHealSituation(analysis_result) == ""

\* The self-heal level (Planner.py:26-32), "" when the verdict has no self_heal.
SelfHealSituation(analysis_result) ==
    IF InList("self_heal", analysis_result.adaptation)
    THEN IF "no_replicas" \in analysis_result.qos_unhealthy_metrics
         THEN "self_heal_hard" ELSE "self_heal_soft"
    ELSE ""

\* Python evaluates the right-hand side of an assignment once: F applied to
\* the value of v.
Let(v, F(_)) == CHOOSE r \in {F(x) : x \in {v}} : TRUE

\* The ROI stage of _decide_action (Planner.py:68-142) for the config the
\* rules adopted: candidates, Pareto frontier, best candidate, final gate.
SelectByRoi(system_situation, config, new_config, latency_now, roi_threshold) ==
    LET cn2 == new_config.requests.cpu + new_config.limits.cpu
        Gate(pareto) ==
            LET best == BestOf(pareto, 1, 0, config, new_config, cn2)
                chosen == IF best = 0 THEN new_config ELSE pareto[best].config
            IN  IF RoiTooLow(config, chosen, roi_threshold)
                THEN NoDecision
                ELSE [situation |-> system_situation, config |-> chosen]
    IN  Let(_pareto_frontier(Candidates(new_config, cn2, latency_now)), Gate)

\* A _decide_action without its early returns: every verdict goes through
\* the ROI stage.
_decide_action_roi_only(analysis_result, config, roi_threshold) ==
    SelectByRoi("", config, config, analysis_result.latency_avg, roi_threshold)

\* Planner._decide_action: (system_situation, new_config), or (None, None).
_decide_action(analysis_result, config, roi_threshold) ==
    LET base_adaptation == analysis_result.adaptation
        qos_unhealthy_metrics == analysis_result.qos_unhealthy_metrics
        qoe_unhealthy_metrics == analysis_result.qoe_unhealthy_metrics
        heal == SelfHealSituation(analysis_result)
        qoe_fixed == InList("qoe_unhealthy", base_adaptation)
        afterQoe == IF qoe_fixed
                    THEN _adopt_qoe_unhealthy_situation(qoe_unhealthy_metrics, config)
                    ELSE config
        system_situation ==
            IF InList("qos_warning", base_adaptation) THEN "qos_warning"
            ELSE IF InList("qos_unhealthy", base_adaptation) THEN "qos_unhealthy"
            ELSE IF qoe_fixed THEN "qoe_unhealthy" ELSE ""
        adopted ==
            IF InList("qos_warning", base_adaptation)
            THEN _adopt_qos_warning_situation(qos_unhealthy_metrics, afterQoe)
            ELSE IF InList("qos_unhealthy", base_adaptation)
            THEN _adopt_qos_unhealthy_situation(qos_unhealthy_metrics, afterQoe)
            ELSE afterQoe
        Rest(new_config) ==
            IF qoe_fixed /\ system_situation = "qoe_unhealthy"
            THEN [situation |-> system_situation, config |-> new_config]
            ELSE IF InList("qos_healthy", base_adaptation)
            THEN NoDecision
            ELSE SelectByRoi(system_situation, config, new_config,
                             analysis_result.latency_avg, roi_threshold)
    IN  IF heal # ""
        THEN [situation |-> heal, config |-> config]
        ELSE Let(adopted, Rest)

\* Planner.evaluate_services: one _decide_action per analysed service; a
\* service without a decision keeps its config in new_configs and gets no
\* entry in system_situations.
evaluate_services(analysis_results, current_configs, roi_threshold) ==
    LET decided == [svc \in DOMAIN analysis_results |->
                       _decide_action(analysis_results[svc], current_configs[svc],
                                      roi_threshold)]
        acted == {svc \in DOMAIN analysis_results : decided[svc].config # None}
    IN  [decisions |-> [svc \in DOMAIN analysis_results |-> decided[svc].config],
         new_configs |-> [svc \in DOMAIN current_configs |->
                             IF svc \in acted THEN decided[svc].config
                             ELSE current_configs[svc]],
         system_situations |-> [svc \in acted |-> decided[svc].situation]]

\* ------------------------------------------------------------------- state

VARIABLES
    pc,                 \* the stage of the driver loop / the step of execute_plan
    cycle_count,        \* driver: the number of the running cycle
    roi_threshold,      \* Planner.roi_threshold
    qos_data,           \* driver: (metric, aggregation) -> fetched data
    qoe_data,           \* driver: the application's metrics, or None
    service_deque,      \* Analyzer.service_deque
    analysis_results,   \* driver: the Analyzer's results
    current_configs,    \* driver: the authoritative config of every service
    decisions,          \* driver: the Planner's decisions
    new_configs,        \* driver: the Planner's target configs
    system_situations,  \* driver / execute_plan: the situation tags
    success,            \* driver and execute_plan: the local `success`
    exception,          \* the exception that ended the driver, or None
    plan,               \* execute_plan: its plan argument
    configs,            \* execute_plan: its configs argument
    ex_i,               \* execute_plan: the index of the running loop
    backups,            \* execute_plan: backups, in insertion order
    result,             \* execute_plan: the returned value, None while running
    cmds,               \* the shell commands issued, with their return codes
    live,               \* the cluster: every deployment's applied config
    files,              \* the backup directory: path -> saved deployment
    knowledge,          \* the Knowledge object: data and last_modified
    knowledge_file,     \* the Knowledge file: its JSON text and its mtime
    clock,              \* the time of the file system
    last_write,         \* the caller of Knowledge: its last setter call
    rooms,              \* RoomManager.rooms: room_id -> Room
    user_rooms,         \* RoomManager.user_rooms: user_id -> room_id
    pause_timers,       \* RoomManager.pause_timers: room_id -> timer task
    cleanup_timers,     \* RoomManager.cleanup_timers: room_id -> timer task
    tasks,              \* the timer tasks of the event loop that have not ended
    active_connections, \* ConnectionManager.active_connections: room_id -> websockets
    connection_info,    \* ConnectionManager.connection_info: websocket -> (room_id, user_id)
    endpoints,          \* the websockets whose websocket_endpoint is in its receive loop
    next_obj,           \* the number of Song objects created so far
    last_call           \* the last call of the application: method, room, returned value

vars == <<pc, cycle_count, roi_threshold, qos_data, qoe_data, service_deque, analysis_results,
          current_configs, decisions, new_configs, system_situations, success,
          exception, plan, configs, ex_i, backups, result, cmds, live, files,
          knowledge, knowledge_file, clock, last_write,
          rooms, user_rooms, pause_timers, cleanup_timers, tasks,
          active_connections, connection_info, endpoints, next_obj, last_call>>

driverVars == <<cycle_count, roi_threshold, qos_data, qoe_data, service_deque, analysis_results,
                current_configs, decisions, new_configs, exception>>

executorVars == <<plan, configs, ex_i, backups, result, cmds, live, files>>

knowledgeVars == <<knowledge, knowledge_file, clock, last_write>>

roomVars == <<rooms, user_rooms, pause_timers, cleanup_timers, tasks,
              active_connections, connection_info, endpoints, next_obj, last_call>>

\* The driver's services as a set.
DriverServices == {service_to_use[i] : i \in 1..Len(service_to_use)}

\* ROI thresholds (thresholds["roi"]) the Planner is run with.
RoiThresholds ==
    {[num |-> 0, den |-> 1], [num |-> 1, den |-> 2], [num |-> 2, den |-> 1]}

\* The parts of the model a specification does not exercise stay idle.
DriverIdle ==
    /\ cycle_count = 0
    /\ qos_data = None /\ qoe_data = None /\ service_deque = None
    /\ exception = None

ExecutorIdle ==
    /\ plan = None /\ configs = None /\ ex_i = 0 /\ backups = <<>>
    /\ result = None /\ cmds = <<>> /\ live = None /\ files = <<>>

KnowledgeIdle ==
    /\ knowledge = None /\ knowledge_file = None /\ clock = 0 /\ last_write = None

RoomIdle ==
    /\ rooms = <<>> /\ user_rooms = <<>>
    /\ pause_timers = <<>> /\ cleanup_timers = <<>> /\ tasks = <<>>
    /\ active_connections = <<>> /\ connection_info = <<>> /\ endpoints = {}
    /\ next_obj = 0 /\ last_call = None

\* ----------------------------------------------------------- planning stage

\* A planning stage whose rules write into the caller's configs (the config
\* is not copied before the rules mutate it).
PlanningStageInPlace ==
    /\ pc = "plan"
    /\ LET r == evaluate_services(analysis_results, current_configs, roi_threshold)
       IN  /\ decisions' = r.decisions
           /\ new_configs' = r.new_configs
           /\ system_situations' = r.system_situations
           /\ current_configs' = r.new_configs
    /\ pc' = "execute"
    /\ UNCHANGED <<cycle_count, roi_threshold, qos_data, qoe_data, service_deque, analysis_results,
                   success, exception>>
    /\ UNCHANGED executorVars
    /\ UNCHANGED knowledgeVars
    /\ UNCHANGED roomVars

\* driver.py:135: decisions, new_configs, system_situations =
\*     planner.evaluate_services(analysis_results, current_configs)
PlanningStage ==
    /\ pc = "plan"
    /\ LET r == evaluate_services(analysis_results, current_configs, roi_threshold)
       IN  /\ decisions' = r.decisions
           /\ new_configs' = r.new_configs
           /\ system_situations' = r.system_situations
    /\ pc' = "execute"
    /\ UNCHANGED <<cycle_count, roi_threshold, qos_data, qoe_data, service_deque, analysis_results,
                   current_configs, success, exception>>
    /\ UNCHANGED executorVars
    /\ UNCHANGED knowledgeVars
    /\ UNCHANGED roomVars

\* ---- the Planner on its own: every verdict the Analyzer's rules compose

\* Windowed latency averages in ms, below and above the threshold.
LatencyLevels == {[num |-> 0, den |-> 1], [num |-> 100, den |-> 1], [num |-> 400, den |-> 1]}

\* Utilities of the three tiers: >= 0.8, in [0.5, 0.8), < 0.5.
UtilityLevels == {[num |-> 9, den |-> 10], [num |-> 6, den |-> 10], [num |-> 3, den |-> 10]}

\* The QoS flag sets of QosFlags for a latency average: high and low of one
\* metric exclude each other, latency_avg_high follows the latency.
QosFlagSets(latency, replicaFlags) ==
    {cpuF \cup memF \cup errF \cup repF
        \cup (IF Above(latency, latency_avg_threshold) THEN {"latency_avg_high"} ELSE {}) :
        cpuF \in {{}, {"cpu_high"}, {"cpu_low"}},
        memF \in {{}, {"memory_high"}, {"memory_low"}},
        errF \in {{}, {"error_rate_high"}},
        repF \in replicaFlags}

\* The QoE flag sets of QoeFlags.
QoeFlagSets ==
    {playF \cup downF \cup cacheF \cup diskF :
        playF \in {{}, {"playback_latency_high"}, {"playback_latency_low"}},
        downF \in {{}, {"download_time_high"}, {"download_time_low"}},
        cacheF \in {{}, {"cache_hit_low"}},
        diskF \in {{}, {"disk_usage_high"}}}

\* The fields of an Analyzer result the Planner reads.
Verdict(qos_unhealthy, qoe_unhealthy, utility, latency) ==
    [adaptation |-> Adaptation(qos_unhealthy, qoe_unhealthy, utility),
     qos_unhealthy_metrics |-> qos_unhealthy,
     qoe_unhealthy_metrics |-> qoe_unhealthy,
     qos_overall_utility |-> utility,
     latency_avg |-> latency]

\* Configs within the limits with limits >= requests: the QoS knobs over
\* their grid with the QoE knobs fixed, and the QoE knobs over theirs.
CpuGrid == {MilliCPU(250), MilliCPU(500), MilliCPU(1000)}
MemoryGrid == {MiB(256), MiB(512), MiB(1024)}

QosConfigs ==
    {Config(rc, rm, lc, lm, rep, 2, 1000, 4) :
        rc \in CpuGrid, lc \in CpuGrid, rm \in MemoryGrid, lm \in MemoryGrid,
        rep \in min_replica..max_replica}

QoeConfigs ==
    {Config(MilliCPU(500), MiB(512), MilliCPU(500), MiB(512), 1, sq, 1000, pl) :
        sq \in 1..song_quality_cap, pl \in {0, 5, preload_cap}}

PlannerInputs(cfgs, latencies, qosSets(_), qoeSets) ==
    /\ roi_threshold \in RoiThresholds
    /\ current_configs \in [DriverServices -> cfgs]
    /\ \E latency \in latencies, utility \in UtilityLevels :
         \E qos \in qosSets(latency), qoe \in qoeSets :
            analysis_results = [svc \in DriverServices |->
                                   Verdict(qos, qoe, utility, latency)]

QosOnlyFlagSets(latency) == QosFlagSets(latency, {{}})
OutageFlagSets(latency) ==
    {f \in QosFlagSets(latency, {{"no_replicas"}}) : "error_rate_high" \notin f}
FewQosFlagSets(latency) ==
    {f \in QosFlagSets(latency, {{}}) : "error_rate_high" \notin f /\ "memory_high" \notin f}

PlannerInit ==
    /\ pc = "plan"
    /\ \/ PlannerInputs({c \in QosConfigs : /\ c.requests.cpu <= c.limits.cpu
                                            /\ c.requests.memory <= c.limits.memory},
                        LatencyLevels \ {[num |-> 0, den |-> 1]},
                        QosOnlyFlagSets, {{}})
       \/ PlannerInputs(QoeConfigs, LatencyLevels \ {[num |-> 100, den |-> 1]},
                        FewQosFlagSets, QoeFlagSets)
       \/ PlannerInputs(QoeConfigs, LatencyLevels \ {[num |-> 100, den |-> 1]},
                        OutageFlagSets, {{}, {"cache_hit_low"}})
    /\ decisions = None /\ new_configs = None /\ system_situations = None
    /\ success = None
    /\ DriverIdle /\ ExecutorIdle
    /\ KnowledgeIdle
    /\ RoomIdle

PlannerNext == PlanningStage

PlannerSpec == PlannerInit /\ [][PlannerNext]_vars

\* ---------------------------------------------------------------- Executor

\* Return codes of a shell command: 0 and a failure.
ReturnCodes == {0, 1}

\* One issued shell command and its return code.
Cmd(op, svc, args, rc) == [op |-> op, svc |-> svc, args |-> args, rc |-> rc]

\* A dry-run whose return code is not looked at.
_dry_run_unchecked(rc) == TRUE

\* Executor._dry_run: "oc get deploy <svc>" returned 0.
_dry_run(rc) == rc = 0

\* Executor._backup: the path f"{backup_dir}/{svc}_{timestamp}.yaml" when
\* "oc get deploy <svc> -o yaml > path" returned 0, else None.
BackupPath(svc) == <<"./backup", svc>>
_backup(svc, rc) == IF rc = 0 THEN BackupPath(svc) ELSE None

\* The backup directory after the command of _backup: the redirection
\* creates the file, which holds the deployment when the command succeeded.
FilesAfterBackup(fs, deployed, svc, rc) ==
    [p \in DOMAIN fs \cup {BackupPath(svc)} |->
        IF p = BackupPath(svc) THEN (IF rc = 0 THEN deployed[svc] ELSE None)
        ELSE fs[p]]

\* Executor._rollback: no command without a backup path or without the file.
RollbackRuns(fs, backup_path) == backup_path # None /\ backup_path \in DOMAIN fs

\* "oc apply -f <backup_path>": the saved deployment is back when it returns 0.
AfterRollback(deployed, fs, svc, backup_path, rc) ==
    IF rc = 0 /\ fs[backup_path] # None
    THEN [deployed EXCEPT ![svc] = fs[backup_path]]
    ELSE deployed

\* The situation tags execute_plan has a branch for (Executor.py:76-132).
HandledModes == {"self_heal_hard", "self_heal_soft", "warning", "unhealthy"}

\* The branches that leave the apply loop whatever the return code.
BreakingModes == {"self_heal_hard", "self_heal_soft"}

\* The command of a mode (Executor.py:78, 93-96, 112-116, 138-143).
ApplyCommand(mode, svc, adaptation, rc) ==
    CASE mode = "self_heal_hard" -> Cmd("deployment.sh", svc, None, rc)
      [] mode = "self_heal_soft" ->
            Cmd("rollout_restart_scale", svc,
                [replicas |-> Max(adaptation.replica, 1)], rc)
      [] mode = "warning" ->
            Cmd("set_resources_scale", svc,
                [requests |-> None, limits |-> adaptation.limits,
                 replicas |-> adaptation.replica], rc)
      [] mode = "unhealthy" ->
            Cmd("set_resources_scale", svc,
                [requests |-> adaptation.requests, limits |-> adaptation.limits,
                 replicas |-> adaptation.replica], rc)

\* How far a command line "a && b" got: both commands ran, the first failed
\* (the second did not run), or the first ran and the second failed.
Outcomes(mode) ==
    IF mode = "self_heal_hard" THEN {"ok", "failed"}
    ELSE {"ok", "failed", "second_failed"}

OutcomeCode(outcome) == IF outcome = "ok" THEN 0 ELSE 1

\* The deployment after "oc set resources" / "oc scale" of a mode.
Resourced(mode, deployment, adaptation) ==
    IF mode = "warning" THEN [deployment EXCEPT !.limits = adaptation.limits]
    ELSE IF mode = "unhealthy"
    THEN [deployment EXCEPT !.requests = adaptation.requests,
                            !.limits = adaptation.limits]
    ELSE deployment

Scaled(mode, deployment, adaptation) ==
    [deployment EXCEPT !.replica = IF mode = "self_heal_soft"
                                   THEN Max(adaptation.replica, 1)
                                   ELSE adaptation.replica]

\* What the manifests of deployment.sh deploy (the script is not part of the
\* sources; the model takes the configuration of its manifests to be this one).
ManifestConfig == Config(MilliCPU(500), MiB(512), MilliCPU(500), MiB(512), 1, 2, 1000, 4)

\* The cluster after the command of a mode with the given outcome.
AfterApply(deployed, mode, svc, adaptation, outcome) ==
    IF mode = "self_heal_hard"
    THEN IF outcome = "ok" THEN [s \in DOMAIN deployed |-> ManifestConfig] ELSE deployed
    ELSE IF outcome = "failed" THEN deployed
    ELSE IF outcome = "second_failed"
    THEN [deployed EXCEPT ![svc] = Resourced(mode, @, adaptation)]
    ELSE [deployed EXCEPT ![svc] = Scaled(mode, Resourced(mode, @, adaptation), adaptation)]

\* backups[svc] = path: a dict keeps the order of first insertion.
DictPut(d, key, value) == Append(d, <<key, value>>)

\* STEP 1 of execute_plan (Executor.py:58-64), one iteration: the dry-run of
\* the next service of the plan; a failure returns False at once.
DryRunStep ==
    /\ pc = "dry_run"
    /\ LET svc == Services[ex_i]
           adaptation == plan[svc]
           next_pc == IF ex_i < Len(Services) THEN "dry_run" ELSE "apply"
           next_i == IF ex_i < Len(Services) THEN ex_i + 1 ELSE 1
       IN  IF adaptation = None
           THEN /\ pc' = next_pc /\ ex_i' = next_i
                /\ UNCHANGED <<cmds, result>>
           ELSE \E rc \in ReturnCodes :
                   /\ cmds' = Append(cmds, Cmd("dry_run", svc, None, rc))
                   /\ IF _dry_run(rc)
                      THEN pc' = next_pc /\ ex_i' = next_i /\ UNCHANGED result
                      ELSE pc' = "returned" /\ result' = FALSE /\ UNCHANGED ex_i
    /\ UNCHANGED <<plan, configs, system_situations, success, backups, live, files>>
    /\ UNCHANGED driverVars
    /\ UNCHANGED knowledgeVars
    /\ UNCHANGED roomVars

\* STEP 2 of execute_plan (Executor.py:66-162), one iteration: backup, then
\* the command of the service's mode; after the last iteration or a break,
\* the return of True (Executor.py:171-173) or the start of STEP 3.
BackupApplyStep ==
    /\ pc = "apply"
    /\ LET svc == Services[ex_i]
           adaptation == plan[svc]
           last == ex_i >= Len(Services)
       IN  IF adaptation = None
           THEN /\ UNCHANGED <<success, backups, cmds, live, files>>
                /\ IF ~ last
                   THEN pc' = "apply" /\ ex_i' = ex_i + 1 /\ UNCHANGED result
                   ELSE IF success
                   THEN pc' = "returned" /\ result' = TRUE /\ UNCHANGED ex_i
                   ELSE pc' = "rollback" /\ ex_i' = 1 /\ UNCHANGED result
           ELSE \E backup_rc \in ReturnCodes :
                \E outcome \in Outcomes(system_situations[svc]) :
                   LET mode == system_situations[svc]
                       runs == mode \in HandledModes
                       failed == runs /\ outcome # "ok"
                       leaves == failed \/ mode \in BreakingModes \/ last
                       logged == Append(cmds, Cmd("backup", svc, BackupPath(svc), backup_rc))
                   IN  /\ runs \/ outcome = "ok"
                       /\ backups' = DictPut(backups, svc, _backup(svc, backup_rc))
                       /\ files' = FilesAfterBackup(files, live, svc, backup_rc)
                       /\ cmds' = IF runs
                                  THEN Append(logged, ApplyCommand(mode, svc, adaptation,
                                                                   OutcomeCode(outcome)))
                                  ELSE logged
                       /\ live' = IF runs
                                  THEN AfterApply(live, mode, svc, adaptation, outcome)
                                  ELSE live
                       /\ success' = (success /\ ~ failed)
                       /\ IF ~ leaves
                          THEN pc' = "apply" /\ ex_i' = ex_i + 1 /\ UNCHANGED result
                          ELSE IF success /\ ~ failed
                          THEN pc' = "returned" /\ result' = TRUE /\ UNCHANGED ex_i
                          ELSE pc' = "rollback" /\ ex_i' = 1 /\ UNCHANGED result
    /\ UNCHANGED <<plan, configs, system_situations>>
    /\ UNCHANGED driverVars
    /\ UNCHANGED knowledgeVars
    /\ UNCHANGED roomVars

\* A rollback that gives up at the first service it cannot restore.
RollbackStepAborting ==
    /\ pc = "rollback"
    /\ LET rollback_svc == backups[ex_i][1]
           backup_file == backups[ex_i][2]
       IN  IF RollbackRuns(files, backup_file)
           THEN \E rc \in ReturnCodes :
                   /\ cmds' = Append(cmds, Cmd("rollback", rollback_svc, backup_file, rc))
                   /\ live' = AfterRollback(live, files, rollback_svc, backup_file, rc)
                   /\ IF ex_i < Len(backups) /\ rc = 0
                      THEN pc' = "rollback" /\ ex_i' = ex_i + 1 /\ UNCHANGED result
                      ELSE pc' = "returned" /\ result' = FALSE /\ UNCHANGED ex_i
           ELSE /\ UNCHANGED <<cmds, live>>
                /\ pc' = "returned" /\ result' = FALSE /\ UNCHANGED ex_i
    /\ UNCHANGED <<plan, configs, system_situations, success, backups, files>>
    /\ UNCHANGED driverVars
    /\ UNCHANGED knowledgeVars
    /\ UNCHANGED roomVars

\* STEP 3 of execute_plan (Executor.py:164-169), one iteration over
\* backups.items(); after the last one, the return of False.
RollbackStep ==
    /\ pc = "rollback"
    /\ LET rollback_svc == backups[ex_i][1]
           backup_file == backups[ex_i][2]
       IN  IF RollbackRuns(files, backup_file)
           THEN \E rc \in ReturnCodes :
                   /\ cmds' = Append(cmds, Cmd("rollback", rollback_svc, backup_file, rc))
                   /\ live' = AfterRollback(live, files, rollback_svc, backup_file, rc)
           ELSE UNCHANGED <<cmds, live>>
    /\ IF ex_i < Len(backups)
       THEN pc' = "rollback" /\ ex_i' = ex_i + 1 /\ UNCHANGED result
       ELSE pc' = "returned" /\ result' = FALSE /\ UNCHANGED ex_i
    /\ UNCHANGED <<plan, configs, system_situations, success, backups, files>>
    /\ UNCHANGED driverVars
    /\ UNCHANGED knowledgeVars
    /\ UNCHANGED roomVars

\* ---- execute_plan on its own: every plan over the services

\* The config of every deployment before the transaction.
DeployedConfig == Config(MilliCPU(500), MiB(512), MilliCPU(500), MiB(512), 2, 2, 1000, 4)

\* Target configs of a plan: a limits-only move, and a move of requests,
\* limits and replicas.
Targets ==
    {Config(MilliCPU(500), MiB(512), MilliCPU(750), MiB(768), 2, 2, 1000, 4),
     Config(MilliCPU(750), MiB(768), MilliCPU(750), MiB(768), 3, 2, 1000, 4)}

\* The tags the Planner emits, and the tags execute_plan tests for.
PlannerTags ==
    {"self_heal_hard", "self_heal_soft", "qos_warning", "qos_unhealthy", "qoe_unhealthy"}
SituationTags == PlannerTags \cup HandledModes

ExecInit ==
    /\ pc = "dry_run"
    /\ ex_i = 1
    /\ plan \in [ServiceSet -> Targets \cup {None}]
    /\ system_situations \in [{svc \in ServiceSet : plan[svc] # None} -> SituationTags]
    /\ configs = [svc \in ServiceSet |-> DeployedConfig]
    /\ live = configs
    /\ success = TRUE
    /\ backups = <<>>
    /\ result = None
    /\ cmds = <<>>
    /\ files = <<>>
    /\ roi_threshold = None /\ analysis_results = None /\ current_configs = None
    /\ decisions = None /\ new_configs = None
    /\ DriverIdle
    /\ KnowledgeIdle
    /\ RoomIdle

ExecNext == DryRunStep \/ BackupApplyStep \/ RollbackStep

ExecSpec == ExecInit /\ [][ExecNext]_vars

\* ------------------------------------------------------------------ driver

\* The methods class Executor defines (Executor.py:6-53).
ExecutorMethods == {"__init__", "_run", "_dry_run", "_backup", "_rollback", "execute_plan"}

\* system_situations == "qoe_unhealthy" (driver.py:140): system_situations
\* is the dict evaluate_services returns, and a dict never equals a str.
DictEqualsStr(d, str) == FALSE

\* What one cycle's telemetry says about a service: the cycle means of the
\* metrics the verdict reads.  Latency is in ns, CPU and memory in percent;
\* with 100 requests, errors / request_count is the error count in hundredths.
QosSamples ==
    {(M_cpu :> cpu) @@ (M_memory :> memory) @@ (M_latency :> latency * NsPerMs)
        @@ (M_request_count :> requests) @@ (M_errors :> errors)
        @@ (M_replicas :> replicas) :
        cpu \in {20, 75, 90}, memory \in {75, 90}, latency \in {20, 400},
        requests \in {0, 100}, errors \in {0, 10}, replicas \in {0, 1}}

\* The metrics whose fetch fails in a cycle (Monitor.fetch_data_from_ibm
\* returns None).
FetchFailures == {{}, {M_replicas}, {M_cpu, M_memory}}

\* The JSON of /api/metrics; playback latency and download time in tenths
\* of a second, cache_hit_ratio as [hits, misses].
QoeSamples ==
    [disk_usage : {40, 90}, avg_playback_latency : {2, 30},
     avg_download_time : {5, 70}, cache_hit_ratio : {<<0, 0>>, <<8, 2>>, <<0, 5>>}]

\* The cycles the driver loop is followed for.
MaxCycles == 7

\* driver.py:108-122: the cycle is counted, then one fetch per monitored
\* metric, then the QoE fetch, which returns None when the request fails.
MonitoringStage ==
    /\ pc = "monitor"
    /\ cycle_count < MaxCycles
    /\ cycle_count' = cycle_count + 1
    /\ \E sample \in QosSamples, failed \in FetchFailures :
          qos_data' = [m \in analyze_metrics \ failed |->
                          [svc \in DriverServices |-> sample[m]]]
    /\ qoe_data' \in QoeSamples \cup {None}
    /\ pc' = "analyze"
    /\ UNCHANGED <<roi_threshold, service_deque, analysis_results, current_configs,
                   decisions, new_configs, system_situations, success, exception>>
    /\ UNCHANGED executorVars
    /\ UNCHANGED knowledgeVars
    /\ UNCHANGED roomVars

\* Analyzer.process_data for one service's collected values: the sample
\* passed to _evaluate_metrics.
EvaluatedDeques(deques, metric_values, qoe) ==
    EvaluateAppend(deques,
        [cpu |-> Get(metric_values, M_cpu),
         memory |-> Get(metric_values, M_memory),
         latency_avg |-> Get(metric_values, M_latency),
         error_rate |-> ErrorRate(Get(metric_values, M_errors),
                                  Get(metric_values, M_request_count)),
         disk_usage |-> qoe.disk_usage,
         cache_hit_ratio |-> CacheHitRatio(qoe.cache_hit_ratio[1], qoe.cache_hit_ratio[2]),
         avg_playback_latency |-> qoe.avg_playback_latency,
         avg_download_time |-> qoe.avg_download_time])

\* Analyzer.process_data (Analyzer.py:211-247) with a QoE record: every
\* service's windows after the appends, and the results.  _evaluate_metrics
\* never returns None, so every service gets a result.
process_data(deques, qos, qoe) ==
    LET appended == [svc \in DriverServices |->
                        EvaluatedDeques(deques[svc], Outputs(qos, svc), qoe)]
    IN  [service_deque |-> appended,
         analysis_results |->
            [svc \in DriverServices |->
                EvaluateResult(appended[svc], Get(Outputs(qos, svc), M_replicas))]]

\* driver.py:127-131: analyzer.process_data(qos_data, qoe_data).  With
\* qoe_data None, qoe_data["disk_usage"] raises TypeError before any window
\* is touched; an empty result sleeps and starts the next cycle.
AnalyzingStage ==
    /\ pc = "analyze"
    /\ IF qoe_data = None
       THEN /\ pc' = "crashed" /\ exception' = "TypeError"
            /\ UNCHANGED <<service_deque, analysis_results>>
       ELSE LET r == process_data(service_deque, qos_data, qoe_data)
            IN  /\ service_deque' = r.service_deque
                /\ analysis_results' = r.analysis_results
                /\ pc' = IF DOMAIN r.analysis_results = {} THEN "monitor" ELSE "plan"
                /\ UNCHANGED exception
    /\ UNCHANGED <<cycle_count, roi_threshold, qos_data, qoe_data, current_configs, decisions,
                   new_configs, system_situations, success>>
    /\ UNCHANGED executorVars
    /\ UNCHANGED knowledgeVars
    /\ UNCHANGED roomVars

\* driver.py:140-149: the call of the Executor and the commit.  The method
\* the driver names is looked up on the Executor; the lookup of a name the
\* class does not define raises AttributeError, which ends the driver.
ExecutingStage ==
    /\ pc = "execute"
    /\ LET method == IF DictEqualsStr(system_situations, "qoe_unhealthy")
                     THEN "execute_qoe_plan" ELSE "execute_qos_plan"
       IN  IF method \in ExecutorMethods
           THEN pc' = "executor" /\ UNCHANGED exception
           ELSE pc' = "crashed" /\ exception' = "AttributeError"
    /\ UNCHANGED <<cycle_count, roi_threshold, qos_data, qoe_data, service_deque, analysis_results,
                   current_configs, decisions, new_configs, system_situations, success>>
    /\ UNCHANGED executorVars
    /\ UNCHANGED knowledgeVars
    /\ UNCHANGED roomVars

\* resources[svc] of the Knowledge (driver.py:79-95): the config the driver
\* starts from.
InitialResources ==
    {Config(MilliCPU(500), MiB(512), MilliCPU(500), MiB(512), 1, 2, 1000, 4),
     Config(MilliCPU(250), MiB(256), MilliCPU(1000), MiB(1024), 3, 3, 0, 10)}

DriverInit ==
    /\ pc = "monitor"
    /\ cycle_count = 0
    /\ roi_threshold \in RoiThresholds
    /\ current_configs \in [DriverServices -> InitialResources]
    /\ service_deque = [svc \in DriverServices |-> [k \in deque_keys |-> <<>>]]
    /\ qos_data = None /\ qoe_data = None /\ analysis_results = None
    /\ decisions = None /\ new_configs = None /\ system_situations = None
    /\ success = None /\ exception = None
    /\ ExecutorIdle
    /\ KnowledgeIdle
    /\ RoomIdle

DriverNext == MonitoringStage \/ AnalyzingStage \/ PlanningStage \/ ExecutingStage

DriverSpec == DriverInit /\ [][DriverNext]_vars

\* ---- the Analyzer on its own: successive process_data calls on one object

\* One cycle's telemetry: the QoS means and the application's record.
Telemetry(cpu, memory, latency, errors, qoe) ==
    [qos |-> (M_cpu :> cpu) @@ (M_memory :> memory) @@ (M_latency :> latency * NsPerMs)
                @@ (M_request_count :> 100) @@ (M_errors :> errors) @@ (M_replicas :> 1),
     qoe |-> qoe]

\* A calm cycle, a saturated one and an idle one.
TelemetryCycles ==
    {Telemetry(75, 75, 20, 0,
               [disk_usage |-> 40, avg_playback_latency |-> 10,
                avg_download_time |-> 20, cache_hit_ratio |-> <<8, 2>>]),
     Telemetry(90, 90, 400, 10,
               [disk_usage |-> 90, avg_playback_latency |-> 30,
                avg_download_time |-> 70, cache_hit_ratio |-> <<0, 5>>]),
     Telemetry(20, 75, 20, 0,
               [disk_usage |-> 40, avg_playback_latency |-> 2,
                avg_download_time |-> 5, cache_hit_ratio |-> <<0, 0>>])}

\* One cycle of the loop up to the Analyzer (driver.py:108-127): the cycle is
\* counted and analyzer.process_data(qos_data, qoe_data) runs on what the
\* Monitor fetched, on the Analyzer object of the earlier cycles.
ProcessDataCall ==
    /\ pc = "analyze"
    /\ cycle_count < MaxCycles
    /\ cycle_count' = cycle_count + 1
    /\ \E cycle \in TelemetryCycles, failed \in FetchFailures :
          /\ qos_data' = [m \in analyze_metrics \ failed |->
                             [svc \in DriverServices |-> cycle.qos[m]]]
          /\ qoe_data' \in {cycle.qoe, None}
    /\ IF qoe_data' = None
       THEN /\ pc' = "crashed" /\ exception' = "TypeError"
            /\ UNCHANGED <<service_deque, analysis_results>>
       ELSE LET r == process_data(service_deque, qos_data', qoe_data')
            IN  /\ service_deque' = r.service_deque
                /\ analysis_results' = r.analysis_results
                /\ pc' = "analyze"
                /\ UNCHANGED exception
    /\ UNCHANGED <<roi_threshold, current_configs, decisions, new_configs,
                   system_situations, success>>
    /\ UNCHANGED executorVars
    /\ UNCHANGED knowledgeVars
    /\ UNCHANGED roomVars

AnalyzerInit ==
    /\ pc = "analyze"
    /\ cycle_count = 0
    /\ service_deque = [svc \in DriverServices |-> [k \in deque_keys |-> <<>>]]
    /\ qos_data = None /\ qoe_data = None /\ analysis_results = None
    /\ roi_threshold = None /\ current_configs = None
    /\ decisions = None /\ new_configs = None /\ system_situations = None
    /\ success = None /\ exception = None
    /\ ExecutorIdle
    /\ KnowledgeIdle
    /\ RoomIdle

AnalyzerNext == ProcessDataCall

AnalyzerSpec == AnalyzerInit /\ [][AnalyzerNext]_vars

\* ---------------------------------------------------------------- Knowledge

\* The Python values of the Knowledge document: an int, or a dict with
\* string keys.
PyInt(n) == [int |-> n]
PyDict(f) == [dict |-> f]
IsDict(v) == DOMAIN v = {"dict"}
EmptyDict == PyDict(<<>>)

\* d[key] = value, and d.get(key, {}).
SetItem(d, key, value) ==
    PyDict([k \in DOMAIN d.dict \cup {key} |-> IF k = key THEN value ELSE d.dict[k]])
GetOrEmpty(d, key) == IF key \in DOMAIN d.dict THEN d.dict[key] ELSE EmptyDict

\* The text of a JSON number: the decimal digits json.dump writes for a
\* non-negative int, and the int json.load reads from them.
RECURSIVE Digits(_)
Digits(n) == IF n < 10 THEN <<n>> ELSE Append(Digits(n \div 10), n % 10)

RECURSIVE ParseDigits(_)
ParseDigits(ds) ==
    IF Len(ds) = 0 THEN 0
    ELSE ParseDigits(SubSeq(ds, 1, Len(ds) - 1)) * 10 + ds[Len(ds)]

\* json.dump(self.data, f, indent=2): a dict becomes an object, an int a
\* number.
RECURSIVE json_dump(_)
json_dump(v) ==
    IF IsDict(v)
    THEN [object |-> [k \in DOMAIN v.dict |-> json_dump(v.dict[k])]]
    ELSE [number |-> Digits(v.int)]

\* json.load(f): an object becomes a dict, a number an int.
RECURSIVE json_load(_)
json_load(j) ==
    IF DOMAIN j = {"object"}
    THEN PyDict([k \in DOMAIN j.object |-> json_load(j.object[k])])
    ELSE PyInt(ParseDigits(j.number))

\* Knowledge._load_json of the existing file, and Knowledge._save_json: the
\* file is rewritten at time now.
_load_json(file) == json_load(file.text)

\* A save that writes nothing.
_save_json_skipped(file, data, now) == file

_save_json(file, data, now) == [text |-> json_dump(data), mtime |-> now]

\* The accessors.
get_threshold(data) == GetOrEmpty(data, "thresholds")
get_weight(data) == GetOrEmpty(data, "weights")
get_resources(data) == GetOrEmpty(data, "resources")

\* The section of the document a setter writes into, created when missing.
WithSection(data, section) ==
    IF section \notin DOMAIN data.dict THEN SetItem(data, section, EmptyDict) ELSE data

\* Knowledge.set_threshold up to the save: the document after the
\* assignments; TypeError is raised when thresholds[metric] is a number and
\* thresholds[metric][key] = value is attempted on it.
set_threshold(data, metric, key, value) ==
    LET d1 == WithSection(data, "thresholds")
        t1 == d1.dict["thresholds"]
        t2 == IF metric \notin DOMAIN t1.dict THEN SetItem(t1, metric, EmptyDict) ELSE t1
    IN  IF key = "error_rate"
        THEN [data |-> SetItem(d1, "thresholds", SetItem(t2, metric, value)),
              raised |-> FALSE]
        ELSE IF IsDict(t2.dict[metric])
        THEN [data |-> SetItem(d1, "thresholds",
                               SetItem(t2, metric, SetItem(t2.dict[metric], key, value))),
              raised |-> FALSE]
        ELSE [data |-> SetItem(d1, "thresholds", t2), raised |-> TRUE]

\* Knowledge.set_weight and Knowledge.set_resource_config up to the save.
set_weight(data, metric, value) ==
    LET d1 == WithSection(data, "weights")
    IN  SetItem(d1, "weights", SetItem(d1.dict["weights"], metric, value))

set_resource_config(data, service_name, resource_data) ==
    LET d1 == WithSection(data, "resources")
    IN  SetItem(d1, "resources", SetItem(d1.dict["resources"], service_name, resource_data))

\* A ResourceConfig as the document holds it (mCPU, MiB).
ResourceData(cpu, memory, replica, cache_size) ==
    PyDict([requests |-> PyDict([cpu |-> PyInt(cpu), memory |-> PyInt(memory)]),
            limits |-> PyDict([cpu |-> PyInt(cpu), memory |-> PyInt(memory)]),
            replica |-> PyInt(replica),
            song_quality |-> PyInt(2),
            preload_song |-> PyInt(4),
            cache_size |-> PyInt(cache_size)])

\* The document the Knowledge object is constructed from, and the document
\* somebody else leaves in the file.  Weights are in tenths.
InitialDocument ==
    PyDict([thresholds |-> PyDict([cpu |-> PyDict([high |-> PyInt(80), low |-> PyInt(30)]),
                                   error_rate |-> PyInt(5)]),
            weights |-> PyDict([cpu |-> PyInt(3)]),
            resources |-> PyDict([svc \in DriverServices |->
                                     ResourceData(500, 512, 1, 1000)])])

EditedDocument ==
    PyDict([thresholds |-> PyDict([cpu |-> PyDict([high |-> PyInt(85), low |-> PyInt(30)]),
                                   error_rate |-> PyInt(5)]),
            resources |-> PyDict([svc \in DriverServices |->
                                     ResourceData(500, 512, 1, 1000)])])

\* The arguments the setters are called with.
ThresholdMetrics == {"cpu", "error_rate", "disk_usage"}
ThresholdKeys == {"high", "error_rate"}
ThresholdValues == {PyInt(70), PyInt(100)}
WeightMetrics == {"cpu", "latency"}
WeightValues == {PyInt(5)}
ResourceDatas == {ResourceData(750, 768, 2, 1500)}

\* The clock of the file system runs up to MaxClock; two operations can fall
\* into one tick of it.
MaxClock == 2
Times == {t \in {clock, clock + 1} : t <= MaxClock}

\* The caller's record of a write: the setter called last and its arguments,
\* and whether reload_if_updated has been called since.
Write(op, name, key, value) ==
    [op |-> op, name |-> name, key |-> key, value |-> value, reloaded |-> FALSE]

\* knowledge.set_threshold(metric, key, value) (Knowledge.py:41-50).
SetThreshold ==
    /\ pc = "knowledge"
    /\ \E metric \in ThresholdMetrics, key \in ThresholdKeys,
          value \in ThresholdValues, now \in Times :
          LET r == set_threshold(knowledge.data, metric, key, value)
          IN  /\ knowledge' = [knowledge EXCEPT !.data = r.data]
              /\ IF ~ r.raised
                 THEN /\ knowledge_file' = _save_json(knowledge_file, r.data, now)
                      /\ clock' = now
                      /\ last_write' = Write("set_threshold", metric, key, value)
                      /\ UNCHANGED <<pc, exception>>
                 ELSE /\ pc' = "crashed" /\ exception' = "TypeError"
                      /\ last_write' = None
                      /\ UNCHANGED <<knowledge_file, clock>>
    /\ UNCHANGED <<cycle_count, roi_threshold, qos_data, qoe_data, service_deque,
                   analysis_results, current_configs, decisions, new_configs,
                   system_situations, success>>
    /\ UNCHANGED executorVars
    /\ UNCHANGED roomVars

\* knowledge.set_weight(metric, value) (Knowledge.py:52-56).
SetWeight ==
    /\ pc = "knowledge"
    /\ \E metric \in WeightMetrics, value \in WeightValues, now \in Times :
          LET data == set_weight(knowledge.data, metric, value)
          IN  /\ knowledge' = [knowledge EXCEPT !.data = data]
              /\ knowledge_file' = _save_json(knowledge_file, data, now)
              /\ clock' = now
              /\ last_write' = Write("set_weight", metric, None, value)
    /\ UNCHANGED <<pc, system_situations, success>>
    /\ UNCHANGED driverVars
    /\ UNCHANGED executorVars
    /\ UNCHANGED roomVars

\* knowledge.set_resource_config(service_name, resource_data)
\* (Knowledge.py:58-62).
SetResourceConfig ==
    /\ pc = "knowledge"
    /\ \E service_name \in DriverServices, resource_data \in ResourceDatas, now \in Times :
          LET data == set_resource_config(knowledge.data, service_name, resource_data)
          IN  /\ knowledge' = [knowledge EXCEPT !.data = data]
              /\ knowledge_file' = _save_json(knowledge_file, data, now)
              /\ clock' = now
              /\ last_write' = Write("set_resource_config", service_name, None, resource_data)
    /\ UNCHANGED <<pc, system_situations, success>>
    /\ UNCHANGED driverVars
    /\ UNCHANGED executorVars
    /\ UNCHANGED roomVars

\* knowledge.reload_if_updated() (Knowledge.py:64-68).
ReloadIfUpdated ==
    /\ pc = "knowledge"
    /\ LET modified == knowledge_file.mtime
       IN  knowledge' = IF modified # knowledge.last_modified
                        THEN [data |-> _load_json(knowledge_file),
                              last_modified |-> modified]
                        ELSE knowledge
    /\ last_write' = IF last_write = None THEN None
                     ELSE [last_write EXCEPT !.reloaded = TRUE]
    /\ UNCHANGED <<knowledge_file, clock>>
    /\ UNCHANGED <<pc, system_situations, success>>
    /\ UNCHANGED driverVars
    /\ UNCHANGED executorVars
    /\ UNCHANGED roomVars

\* Somebody else rewrites the file, which is what reload_if_updated looks
\* for.
ExternalEdit ==
    /\ pc = "knowledge"
    /\ \E now \in Times :
          /\ knowledge_file' = [text |-> json_dump(EditedDocument), mtime |-> now]
          /\ clock' = now
    /\ last_write' = None
    /\ UNCHANGED knowledge
    /\ UNCHANGED <<pc, system_situations, success>>
    /\ UNCHANGED driverVars
    /\ UNCHANGED executorVars
    /\ UNCHANGED roomVars

\* Knowledge(file_path) on the existing file (Knowledge.py:6-9).
KnowledgeInit ==
    /\ pc = "knowledge"
    /\ clock = 0
    /\ knowledge_file = [text |-> json_dump(InitialDocument), mtime |-> 0]
    /\ knowledge = [data |-> _load_json(knowledge_file), last_modified |-> 0]
    /\ last_write = None
    /\ roi_threshold = None /\ analysis_results = None /\ current_configs = None
    /\ decisions = None /\ new_configs = None /\ system_situations = None
    /\ success = None
    /\ DriverIdle /\ ExecutorIdle /\ RoomIdle

KnowledgeNext ==
    SetThreshold \/ SetWeight \/ SetResourceConfig \/ ReloadIfUpdated \/ ExternalEdit

KnowledgeSpec == KnowledgeInit /\ [][KnowledgeNext]_vars

\* ---------------------------------------------------------- the room manager
\*
\* RoomManager (app/room_manager.py) and ConnectionManager
\* (app/websocket_manager.py) of the music application.  A Room keeps the
\* fields the modelled methods read: members, queue, current_song,
\* playback_state.is_playing and active_connections; timestamps, the playback
\* position and the autoplay playlist are written but never read by them.

\* The users, room codes, videos and websockets of the model.
Users == {"u1", "u2"}
RoomIds == {"ROOM01", "ROOM02"}
Videos == {"v1", "v2"}
Websockets == {"ws1", "ws2"}

\* Song objects created by add_song_to_queue, and the longest list of song
\* ids a reorder request carries.
MaxSongs == 3
MaxQueue == 3

\* requester_name of the songs autoplay adds (room_manager.py:197, the
\* literal of three CJK characters), and a user's display name.
AutoplayName == "autoplay-requester"
UserNames == {"User", AutoplayName}

\* d[key] = value and d.pop(key, None) on a dict whose order is never read.
Assign(d, key, value) ==
    [k \in DOMAIN d \cup {key} |-> IF k = key THEN value ELSE d[k]]
Pop(d, key) == [k \in DOMAIN d \ {key} |-> d[k]]

\* The user ids of a member list.
MemberIds(members) == {members[i] : i \in 1..Len(members)}

\* The Room that create_room builds (room_manager.py:49-71).
NewRoom(user_id) ==
    [members |-> <<user_id>>, queue |-> <<>>, current_song |-> None,
     is_playing |-> FALSE, active_connections |-> 0]

\* The record of the last call of a method: its name, its room and what it
\* returned.
Call(op, room_id, value) == [op |-> op, room_id |-> room_id, ret |-> value]
NoCall == Call("", "", None)

\* RoomManager._update_queue_positions (room_manager.py:325-329): position =
\* index, written into the song objects.  A Song that stands twice in the
\* list, or is also the current song, is one object: it keeps the last index
\* written.
_update_queue_positions(room) ==
    LET q == room.queue
        last(i) == CHOOSE j \in 1..Len(q) :
                      /\ q[j].obj = q[i].obj
                      /\ \A k \in 1..Len(q) : q[k].obj = q[i].obj => k <= j
        queue == [i \in 1..Len(q) |-> [q[i] EXCEPT !.position = last(i) - 1]]
        current == room.current_song
    IN  [room EXCEPT
            !.queue = queue,
            !.current_song =
                IF current = None THEN None
                ELSE IF \E i \in 1..Len(queue) : queue[i].obj = current.obj
                THEN queue[CHOOSE i \in 1..Len(queue) : queue[i].obj = current.obj]
                ELSE current]

\* list.pop(index) of a queue.
PopAt(queue, index) ==
    [i \in 1..(Len(queue) - 1) |-> IF i < index THEN queue[i] ELSE queue[i + 1]]

\* add_song_to_queue on an existing room (room_manager.py:191-240); obj is
\* the identity of the new Song object.
add_song_to_queue(room, room_id, video_id, user_name, obj) ==
    LET autoplay_removed ==
            Len(room.queue) = 1 /\ room.queue[1].requester_name = AutoplayName
        queue == IF autoplay_removed THEN <<>> ELSE room.queue
        song == [id |-> <<room_id, Len(queue), video_id>>, video_id |-> video_id,
                 requester_name |-> user_name, position |-> Len(queue), obj |-> obj]
        appended == Append(queue, song)
    IN  IF room.current_song = None
        THEN _update_queue_positions(
                 [room EXCEPT !.current_song = appended[1], !.queue = Tail(appended),
                              !.is_playing = FALSE])
        ELSE [room EXCEPT !.queue = appended]

\* skip_to_next_song on an existing room (room_manager.py:248-260).
skip_to_next_song(room) ==
    IF room.queue # <<>>
    THEN _update_queue_positions(
             [room EXCEPT !.current_song = room.queue[1], !.queue = Tail(room.queue),
                          !.is_playing = FALSE])
    ELSE [room EXCEPT !.current_song = None, !.is_playing = FALSE]

\* remove_song on an existing room (room_manager.py:291-303): the first song
\* with the id goes; ok is the returned value.
remove_song(room, song_id) ==
    LET found == {i \in 1..Len(room.queue) : room.queue[i].id = song_id}
    IN  IF found # {}
        THEN LET song_index == CHOOSE i \in found : \A j \in found : i <= j
             IN  [room |-> _update_queue_positions(
                              [room EXCEPT !.queue = PopAt(room.queue, song_index)]),
                  ok |-> TRUE]
        ELSE [room |-> room, ok |-> FALSE]

\* reorder_queue on an existing room (room_manager.py:311-323): song_map
\* keeps the last song of every id; ok is the returned value.
reorder_queue(room, song_ids) ==
    LET q == room.queue
        ids == {q[i].id : i \in 1..Len(q)}
        song_map(sid) == q[CHOOSE i \in 1..Len(q) :
                              /\ q[i].id = sid
                              /\ \A j \in 1..Len(q) : q[j].id = sid => j <= i]
    IN  IF \E k \in 1..Len(song_ids) : song_ids[k] \notin ids
        THEN [room |-> room, ok |-> FALSE]
        ELSE [room |-> _update_queue_positions(
                          [room EXCEPT !.queue = [k \in 1..Len(song_ids) |->
                                                      song_map(song_ids[k])]]),
              ok |-> TRUE]

\* Timer tasks alive at once (asyncio tasks of _pause_timer_task and
\* _cleanup_timer_task).
MaxTasks == 3
TaskIds == 1..MaxTasks

\* asyncio.create_task for a timer of the room: the new task's id.
FreeTasks(t) == TaskIds \ DOMAIN t
FreshIds(t) ==
    LET first == CHOOSE a \in FreeTasks(t) : \A b \in FreeTasks(t) : a <= b
        rest == FreeTasks(t) \ {first}
    IN  <<first, CHOOSE a \in rest : \A b \in rest : a <= b>>
NewTask(kind, room_id) == [kind |-> kind, room_id |-> room_id, cancelled |-> FALSE]

\* task.cancel(): the task gets CancelledError when the loop runs it next.
Cancel(t, id) == IF id \in DOMAIN t THEN [t EXCEPT ![id].cancelled = TRUE] ELSE t

\* The manager's timer state as one value: the two dicts and the tasks.
Timers(pause, cleanup, t) == [pause_timers |-> pause, cleanup_timers |-> cleanup, tasks |-> t]

\* cancel_pause_timer (room_manager.py:477-482).
cancel_pause_timer(s, room_id) ==
    IF room_id \in DOMAIN s.pause_timers
    THEN [s EXCEPT !.tasks = Cancel(@, s.pause_timers[room_id]),
                   !.pause_timers = Pop(@, room_id)]
    ELSE s

\* cancel_cleanup_timer (room_manager.py:553-558).
cancel_cleanup_timer(s, room_id) ==
    IF room_id \in DOMAIN s.cleanup_timers
    THEN [s EXCEPT !.tasks = Cancel(@, s.cleanup_timers[room_id]),
                   !.cleanup_timers = Pop(@, room_id)]
    ELSE s

\* start_pause_timer (room_manager.py:465-475) with the new task's id: the
\* timer starts only while the room has music playing.
start_pause_timer(s, room_id, id, all_rooms) ==
    LET c == cancel_pause_timer(s, room_id)
    IN  IF /\ room_id \in DOMAIN all_rooms
           /\ all_rooms[room_id].current_song # None
           /\ all_rooms[room_id].is_playing
        THEN [c EXCEPT !.tasks = Assign(@, id, NewTask("pause", room_id)),
                       !.pause_timers = Assign(@, room_id, id)]
        ELSE c

\* start_cleanup_timer (room_manager.py:543-551) with the new task's id.
start_cleanup_timer(s, room_id, id) ==
    LET c == cancel_cleanup_timer(s, room_id)
    IN  [c EXCEPT !.tasks = Assign(@, id, NewTask("cleanup", room_id)),
                  !.cleanup_timers = Assign(@, room_id, id)]

\* ConnectionManager.disconnect (websocket_manager.py:44-72) on
\* c = [active_connections, connection_info, timers]; room_manager is FALSE
\* when the caller passes none, ids are the ids of the tasks it may create;
\* returned is the pair (room_id, user_id), << >> for (None, None).
disconnect(c, websocket, room_manager, ids, all_rooms) ==
    IF websocket \notin DOMAIN c.connection_info
    THEN [c EXCEPT !.returned = <<>>]
    ELSE LET room_id == c.connection_info[websocket][1]
             returned == c.connection_info[websocket]
             info == Pop(c.connection_info, websocket)
         IN  IF room_id \notin DOMAIN c.active_connections
             THEN [c EXCEPT !.connection_info = info, !.returned = returned]
             ELSE LET remaining == c.active_connections[room_id] \ {websocket}
                  IN  IF remaining # {}
                      THEN [c EXCEPT !.connection_info = info,
                                     !.active_connections[room_id] = remaining,
                                     !.returned = returned]
                      ELSE [connection_info |-> info,
                            active_connections |-> Pop(c.active_connections, room_id),
                            timers |->
                                IF room_manager
                                THEN start_cleanup_timer(
                                         start_pause_timer(c.timers, room_id, ids[1], all_rooms),
                                         room_id, ids[2])
                                ELSE c.timers,
                            returned |-> returned]

\* get_room_connection_count (websocket_manager.py:213-215).
get_room_connection_count(connections, room_id) ==
    IF room_id \in DOMAIN connections THEN Cardinality(connections[room_id]) ELSE 0

\* update_active_connections (room_manager.py:162-167).
update_active_connections(all_rooms, room_id, count) ==
    IF room_id \in DOMAIN all_rooms
    THEN [all_rooms EXCEPT ![room_id].active_connections = count]
    ELSE all_rooms

\* The cleanup loop of broadcast_to_room (websocket_manager.py:104-105):
\* disconnect, without a room manager, of every connection whose send failed.
RECURSIVE DisconnectAll(_, _, _)
DisconnectAll(c, disconnected, all_rooms) ==
    IF disconnected = {} THEN c
    ELSE LET connection == CHOOSE w \in disconnected : TRUE
         IN  DisconnectAll(disconnect(c, connection, FALSE, <<0, 0>>, all_rooms),
                           disconnected \ {connection}, all_rooms)

\* The variables of the MAPE-K controller, which the application leaves alone.
controllerVars == <<pc, system_situations, success, driverVars, executorVars, knowledgeVars>>

\* create_room(user_id) (room_manager.py:45-77); generate_room_id draws a
\* code that is not in use.
CreateRoomBy(users, ids) ==
    /\ pc = "app"
    /\ \E user_id \in users, room_id \in ids \ DOMAIN rooms :
          /\ rooms' = Assign(rooms, room_id, NewRoom(user_id))
          /\ user_rooms' = Assign(user_rooms, user_id, room_id)
          /\ last_call' = Call("create_room", room_id, room_id)
    /\ UNCHANGED <<pause_timers, cleanup_timers, tasks, active_connections,
                   connection_info, endpoints, next_obj>>
    /\ UNCHANGED controllerVars

CreateRoom == CreateRoomBy(Users, RoomIds)

\* The first user opens the first room.
OpenRoom == CreateRoomBy({"u1"}, {"ROOM01"})

\* join_room(room_id, user_id) (room_manager.py:116-137).
JoinRoom ==
    /\ pc = "app"
    /\ \E room_id \in RoomIds, user_id \in Users :
          IF room_id \notin DOMAIN rooms
          THEN /\ last_call' = Call("join_room", room_id, None)
               /\ UNCHANGED <<rooms, user_rooms>>
          ELSE /\ last_call' = Call("join_room", room_id, room_id)
               /\ IF user_id \notin MemberIds(rooms[room_id].members)
                  THEN /\ rooms' = [rooms EXCEPT ![room_id].members = Append(@, user_id)]
                       /\ user_rooms' = Assign(user_rooms, user_id, room_id)
                  ELSE UNCHANGED <<rooms, user_rooms>>
    /\ UNCHANGED <<pause_timers, cleanup_timers, tasks, active_connections,
                   connection_info, endpoints, next_obj>>
    /\ UNCHANGED controllerVars

\* leave_room(room_id, user_id) (room_manager.py:139-155).
LeaveRoom ==
    /\ pc = "app"
    /\ \E room_id \in RoomIds, user_id \in Users :
          IF room_id \notin DOMAIN rooms
          THEN /\ last_call' = Call("leave_room", room_id, FALSE)
               /\ UNCHANGED <<rooms, user_rooms>>
          ELSE LET members == SelectSeq(rooms[room_id].members, LAMBDA m : m # user_id)
               IN  /\ rooms' = IF members = <<>> THEN Pop(rooms, room_id)
                               ELSE [rooms EXCEPT ![room_id].members = members]
                   /\ user_rooms' = Pop(user_rooms, user_id)
                   /\ last_call' = Call("leave_room", room_id, TRUE)
    /\ UNCHANGED <<pause_timers, cleanup_timers, tasks, active_connections,
                   connection_info, endpoints, next_obj>>
    /\ UNCHANGED controllerVars

\* add_song_to_queue(room_id, song_data, user_id, user_name)
\* (room_manager.py:188-240).
AddSong(videos, names) ==
    /\ pc = "app"
    /\ next_obj < MaxSongs
    /\ \E room_id \in RoomIds, video_id \in videos, user_name \in names :
          IF room_id \notin DOMAIN rooms
          THEN /\ last_call' = Call("add_song_to_queue", room_id, None)
               /\ UNCHANGED <<rooms, next_obj>>
          ELSE /\ Len(rooms[room_id].queue) < MaxQueue
               /\ rooms' = [rooms EXCEPT ![room_id] =
                               add_song_to_queue(@, room_id, video_id, user_name, next_obj)]
               /\ next_obj' = next_obj + 1
               /\ last_call' = Call("add_song_to_queue", room_id, next_obj)
    /\ UNCHANGED <<user_rooms, pause_timers, cleanup_timers, tasks, active_connections,
                   connection_info, endpoints>>
    /\ UNCHANGED controllerVars

AddSongToQueue == AddSong(Videos, UserNames)

\* A user queues the first video.
QueueSong == AddSong({"v1"}, {"User"})

\* skip_to_next_song(room_id) (room_manager.py:242-260).
SkipToNextSong ==
    /\ pc = "app"
    /\ \E room_id \in DOMAIN rooms :
          /\ rooms' = [rooms EXCEPT ![room_id] = skip_to_next_song(@)]
          /\ last_call' = Call("skip_to_next_song", room_id, None)
    /\ UNCHANGED <<user_rooms, pause_timers, cleanup_timers, tasks, active_connections,
                   connection_info, endpoints, next_obj>>
    /\ UNCHANGED controllerVars

\* update_playback_state(room_id, is_playing) (room_manager.py:264-283).
UpdatePlaybackState ==
    /\ pc = "app"
    /\ \E room_id \in DOMAIN rooms, is_playing \in BOOLEAN :
          /\ rooms' = [rooms EXCEPT ![room_id].is_playing = is_playing]
          /\ last_call' = Call("update_playback_state", room_id, TRUE)
    /\ UNCHANGED <<user_rooms, pause_timers, cleanup_timers, tasks, active_connections,
                   connection_info, endpoints, next_obj>>
    /\ UNCHANGED controllerVars

\* The ids a request can name: those of the queue and one that no song has.
UnknownId == <<"ROOM01", 0, "v0">>
QueueIds(room) == {room.queue[i].id : i \in 1..Len(room.queue)}
SeqsUpTo(S, n) == UNION {[1..k -> S] : k \in 0..n}

\* remove_song(room_id, song_id) (room_manager.py:285-303).
RemoveSong ==
    /\ pc = "app"
    /\ \E room_id \in DOMAIN rooms :
          \E song_id \in QueueIds(rooms[room_id]) \cup {UnknownId} :
              LET r == remove_song(rooms[room_id], song_id)
              IN  /\ rooms' = [rooms EXCEPT ![room_id] = r.room]
                  /\ last_call' = Call("remove_song", room_id, r.ok)
    /\ UNCHANGED <<user_rooms, pause_timers, cleanup_timers, tasks, active_connections,
                   connection_info, endpoints, next_obj>>
    /\ UNCHANGED controllerVars

\* reorder_queue(room_id, song_ids) (room_manager.py:305-329).
ReorderQueue ==
    /\ pc = "app"
    /\ \E room_id \in DOMAIN rooms :
          \E song_ids \in SeqsUpTo(QueueIds(rooms[room_id]) \cup {UnknownId}, MaxQueue) :
              LET r == reorder_queue(rooms[room_id], song_ids)
              IN  /\ rooms' = [rooms EXCEPT ![room_id] = r.room]
                  /\ last_call' = Call("reorder_queue", room_id, r.ok)
    /\ UNCHANGED <<user_rooms, pause_timers, cleanup_timers, tasks, active_connections,
                   connection_info, endpoints, next_obj>>
    /\ UNCHANGED controllerVars

\* The connection state that disconnect works on.
Connections ==
    [active_connections |-> active_connections, connection_info |-> connection_info,
     timers |-> Timers(pause_timers, cleanup_timers, tasks), returned |-> <<>>]

\* websocket_endpoint up to its receive loop (app.py:886-904): the room and
\* member checks, ConnectionManager.connect (websocket_manager.py:26-42) and
\* the update of the room's connection count.
Connect ==
    /\ pc = "app"
    /\ \E websocket \in Websockets \ endpoints, room_id \in RoomIds, user_id \in Users :
          IF \/ room_id \notin DOMAIN rooms
             \/ user_id \notin MemberIds(rooms[room_id].members)
          THEN /\ last_call' = Call("websocket.close", room_id, None)
               /\ UNCHANGED <<rooms, pause_timers, cleanup_timers, tasks,
                              active_connections, connection_info, endpoints>>
          ELSE LET connections ==
                       Assign(active_connections, room_id,
                              (IF room_id \in DOMAIN active_connections
                               THEN active_connections[room_id] ELSE {}) \cup {websocket})
                   s == cancel_cleanup_timer(
                            cancel_pause_timer(Timers(pause_timers, cleanup_timers, tasks),
                                               room_id), room_id)
               IN  /\ active_connections' = connections
                   /\ connection_info' = Assign(connection_info, websocket, <<room_id, user_id>>)
                   /\ pause_timers' = s.pause_timers
                   /\ cleanup_timers' = s.cleanup_timers
                   /\ tasks' = s.tasks
                   /\ rooms' = update_active_connections(
                                   rooms, room_id, get_room_connection_count(connections, room_id))
                   /\ endpoints' = endpoints \cup {websocket}
                   /\ last_call' = Call("connect", room_id, None)
    /\ UNCHANGED <<user_rooms, next_obj>>
    /\ UNCHANGED controllerVars

\* The finally block of websocket_endpoint (app.py:943-952): disconnect with
\* the room manager, then the update of the room's connection count.
EndpointDisconnect ==
    /\ pc = "app"
    /\ Cardinality(FreeTasks(tasks)) >= 2
    /\ \E websocket \in endpoints :
          LET c == disconnect(Connections, websocket, TRUE, FreshIds(tasks), rooms)
          IN  /\ active_connections' = c.active_connections
              /\ connection_info' = c.connection_info
              /\ pause_timers' = c.timers.pause_timers
              /\ cleanup_timers' = c.timers.cleanup_timers
              /\ tasks' = c.timers.tasks
              /\ rooms' = IF c.returned # <<>>
                          THEN update_active_connections(
                                   rooms, c.returned[1],
                                   get_room_connection_count(c.active_connections,
                                                             c.returned[1]))
                          ELSE rooms
              /\ endpoints' = endpoints \ {websocket}
              /\ last_call' = Call("disconnect", "", None)
    /\ UNCHANGED <<user_rooms, next_obj>>
    /\ UNCHANGED controllerVars

\* broadcast_to_room(room_id, message) (websocket_manager.py:87-105) with
\* the sends to `disconnected` failing.
BroadcastToRoom ==
    /\ pc = "app"
    /\ \E room_id \in DOMAIN active_connections :
          \E disconnected \in SUBSET active_connections[room_id] :
              LET c == DisconnectAll(Connections, disconnected, rooms)
              IN  /\ active_connections' = c.active_connections
                  /\ connection_info' = c.connection_info
                  /\ pause_timers' = c.timers.pause_timers
                  /\ cleanup_timers' = c.timers.cleanup_timers
                  /\ tasks' = c.timers.tasks
                  /\ last_call' = Call("broadcast_to_room", room_id, None)
    /\ UNCHANGED <<rooms, user_rooms, endpoints, next_obj>>
    /\ UNCHANGED controllerVars

\* A timer task runs on (room_manager.py:441-461, 503-540).  After its
\* sleep, a pause timer pauses the music (pause_music_for_no_connections,
\* lines 484-500) and a cleanup timer deletes the room with its user
\* mappings and pause timer; a cancelled task that had started sleeping runs
\* its CancelledError handler, one cancelled before its first step runs
\* nothing.  Each path that runs pops the dict entry of the room.
TimerTaskRuns ==
    /\ pc = "app"
    /\ \E id \in DOMAIN tasks, started \in BOOLEAN :
          LET task == tasks[id]
              room_id == task.room_id
              exists == room_id \in DOMAIN rooms
              s == Timers(pause_timers, cleanup_timers, Pop(tasks, id))
          IN  /\ task.cancelled \/ started
              /\ IF task.cancelled
                 THEN /\ pause_timers' = IF started /\ task.kind = "pause"
                                         THEN Pop(pause_timers, room_id) ELSE pause_timers
                      /\ cleanup_timers' = IF started /\ task.kind = "cleanup"
                                           THEN Pop(cleanup_timers, room_id)
                                           ELSE cleanup_timers
                      /\ tasks' = Pop(tasks, id)
                      /\ UNCHANGED <<rooms, user_rooms>>
                 ELSE IF task.kind = "pause"
                 THEN /\ rooms' = IF /\ exists /\ rooms[room_id].current_song # None
                                     /\ rooms[room_id].is_playing
                                  THEN [rooms EXCEPT ![room_id].is_playing = FALSE]
                                  ELSE rooms
                      /\ pause_timers' = Pop(pause_timers, room_id)
                      /\ tasks' = Pop(tasks, id)
                      /\ UNCHANGED <<user_rooms, cleanup_timers>>
                 ELSE LET c == IF exists THEN cancel_pause_timer(s, room_id) ELSE s
                      IN  /\ rooms' = Pop(rooms, room_id)
                          /\ user_rooms' =
                                 IF exists
                                 THEN [u \in DOMAIN user_rooms \
                                             MemberIds(rooms[room_id].members) |->
                                          user_rooms[u]]
                                 ELSE user_rooms
                          /\ pause_timers' = c.pause_timers
                          /\ cleanup_timers' = Pop(c.cleanup_timers, room_id)
                          /\ tasks' = c.tasks
              /\ last_call' = Call("timer", room_id, None)
    /\ UNCHANGED <<active_connections, connection_info, endpoints, next_obj>>
    /\ UNCHANGED controllerVars

\* RoomManager() and ConnectionManager() (room_manager.py:22-27,
\* websocket_manager.py:19-24).
RoomInit ==
    /\ pc = "app"
    /\ rooms = <<>> /\ user_rooms = <<>>
    /\ pause_timers = <<>> /\ cleanup_timers = <<>> /\ tasks = <<>>
    /\ active_connections = <<>> /\ connection_info = <<>> /\ endpoints = {}
    /\ next_obj = 0
    /\ last_call = NoCall
    /\ roi_threshold = None /\ analysis_results = None /\ current_configs = None
    /\ decisions = None /\ new_configs = None /\ system_situations = None
    /\ success = None
    /\ DriverIdle /\ ExecutorIdle /\ KnowledgeIdle

\* Room membership: rooms are created, joined and left.
RoomNext == CreateRoom \/ JoinRoom \/ LeaveRoom
RoomSpec == RoomInit /\ [][RoomNext]_vars

\* The queue of a room: songs are added, played, removed and reordered.
QueueNext ==
    OpenRoom \/ AddSongToQueue \/ SkipToNextSong \/ RemoveSong \/ ReorderQueue
QueueSpec == RoomInit /\ [][QueueNext]_vars

\* Websocket connections and the timers of rooms without connections.
ConnectionNext ==
    \/ OpenRoom \/ QueueSong \/ UpdatePlaybackState
    \/ Connect \/ EndpointDisconnect \/ BroadcastToRoom \/ TimerTaskRuns
ConnectionSpec == RoomInit /\ [][ConnectionNext]_vars

\* -------------------------------------------------- properties: the Planner

\* The Planner has run on this cycle's verdicts.
Planned == pc = "execute"

WithinLimits(c) ==
    /\ c.requests.cpu >= min_cpu /\ c.requests.cpu <= max_cpu
    /\ c.limits.cpu >= min_cpu /\ c.limits.cpu <= max_cpu
    /\ c.requests.memory >= min_memory /\ c.requests.memory <= max_memory
    /\ c.limits.memory >= min_memory /\ c.limits.memory <= max_memory
    /\ c.replica >= min_replica /\ c.replica <= max_replica
    /\ c.song_quality \in 1..3
    /\ c.preload_song >= 0 /\ c.preload_song <= 10

LimitsCoverRequests(c) ==
    /\ c.limits.cpu >= c.requests.cpu
    /\ c.limits.memory >= c.requests.memory

QoeKnobs(c) ==
    [song_quality |-> c.song_quality, cache_size |-> c.cache_size,
     preload_song |-> c.preload_song]

HasTag(svc, tag) == InList(tag, analysis_results[svc].adaptation)
HasFlag(svc, flag) == flag \in analysis_results[svc].qos_unhealthy_metrics

\* C4: from a config within the limits, every decision the Planner emits and
\* every target config of the cycle has requests.cpu and limits.cpu in
\* [min_cpu, max_cpu], requests.memory and limits.memory in
\* [min_memory, max_memory], replica in [min_replica, max_replica],
\* song_quality in {1,2,3} and preload_song in [0,10].
C4_ConfigWithinLimits ==
    Planned =>
        \A svc \in DOMAIN new_configs :
            WithinLimits(current_configs[svc]) =>
                /\ WithinLimits(new_configs[svc])
                /\ decisions[svc] # None => WithinLimits(decisions[svc])

\* C4: a decision is emitted whose memory move met the upper limit and whose
\* replica move met max_replica.
C4_Witness ==
    /\ Planned
    /\ \E svc \in DOMAIN decisions :
        /\ decisions[svc] # None
        /\ decisions[svc] # current_configs[svc]
        /\ HasFlag(svc, "memory_high")
        /\ current_configs[svc].limits.memory = max_memory
        /\ decisions[svc].limits.memory = max_memory

\* C5: in every config the Planner emits, and in every target config of the
\* cycle, limits.cpu >= requests.cpu and limits.memory >= requests.memory,
\* when this holds for the current config.
C5_LimitsCoverRequests ==
    Planned =>
        \A svc \in DOMAIN new_configs :
            LimitsCoverRequests(current_configs[svc]) =>
                /\ LimitsCoverRequests(new_configs[svc])
                /\ decisions[svc] # None => LimitsCoverRequests(decisions[svc])

\* C6: whenever the verdict contains qoe_unhealthy and no self_heal, the
\* decision is non-null and carries the QoE knob changes, whatever the QoS
\* tier and the ROI.
C6_QoeMoveNeverSuppressed ==
    Planned =>
        \A svc \in DOMAIN decisions :
            (HasTag(svc, "qoe_unhealthy") /\ ~ HasTag(svc, "self_heal")) =>
                /\ decisions[svc] # None
                /\ QoeKnobs(decisions[svc])
                     = QoeKnobs(_adopt_qoe_unhealthy_situation(
                                   analysis_results[svc].qoe_unhealthy_metrics,
                                   current_configs[svc]))

\* C7: under a qos_unhealthy verdict with cpu_high and latency_avg_high and
\* CPU below its maximum, the decision is non-null (the move passes the ROI
\* gate) and has requests.cpu and limits.cpu each 250 above the current
\* config's, bounded by max_cpu.
C7_CpuStepsUp ==
    Planned =>
        \A svc \in DOMAIN decisions :
            (/\ HasTag(svc, "qos_unhealthy") /\ ~ HasTag(svc, "self_heal")
             /\ HasFlag(svc, "cpu_high") /\ HasFlag(svc, "latency_avg_high")
             /\ current_configs[svc].requests.cpu < max_cpu
             /\ current_configs[svc].limits.cpu < max_cpu) =>
                /\ decisions[svc] # None
                /\ decisions[svc].requests.cpu
                     = Min(current_configs[svc].requests.cpu + cpu_step, max_cpu)
                /\ decisions[svc].limits.cpu
                     = Min(current_configs[svc].limits.cpu + cpu_step, max_cpu)

\* C10: whenever the verdict contains self_heal, the decision is non-null for
\* every roi_threshold, its situation is self_heal_hard or self_heal_soft and
\* its target config equals the current config.
C10_SelfHealBypassesRoi ==
    Planned =>
        \A svc \in DOMAIN decisions :
            HasTag(svc, "self_heal") =>
                /\ decisions[svc] = current_configs[svc]
                /\ new_configs[svc] = current_configs[svc]
                /\ svc \in DOMAIN system_situations
                /\ system_situations[svc] \in {"self_heal_hard", "self_heal_soft"}

\* C10: a self-heal decision under the highest ROI threshold, for a verdict
\* whose QoS tier is qos_unhealthy.
C10_Witness ==
    /\ Planned
    /\ \E svc \in DOMAIN decisions :
        /\ HasTag(svc, "self_heal") /\ HasTag(svc, "qos_unhealthy")
        /\ roi_threshold = [num |-> 2, den |-> 1]
        /\ decisions[svc] # None
        /\ system_situations[svc] = "self_heal_hard"

\* The verdict asks for a QoS move only.
QosOnlyVerdict(svc) ==
    /\ HasTag(svc, "qos_warning") \/ HasTag(svc, "qos_unhealthy")
    /\ HasTag(svc, "qoe_healthy")
    /\ ~ HasTag(svc, "self_heal")

\* The move the Planner selects under a QoS-only verdict: the tier's rules
\* applied to the current config, then the best candidate of the frontier.
SelectedMove(svc) ==
    LET config == current_configs[svc]
        flags == analysis_results[svc].qos_unhealthy_metrics
        adopted == IF HasTag(svc, "qos_warning")
                   THEN _adopt_qos_warning_situation(flags, config)
                   ELSE _adopt_qos_unhealthy_situation(flags, config)
        cn2 == adopted.requests.cpu + adopted.limits.cpu
        pareto == _pareto_frontier(Candidates(adopted, cn2, analysis_results[svc].latency_avg))
        best == BestOf(pareto, 1, 0, config, adopted, cn2)
    IN  IF best = 0 THEN adopted ELSE pareto[best].config

\* roi < thr for the move from old to new, where
\*   benefit = 0.5 * dcpu / cpu + 0.5 * dmem / mem,
\*   cost = 0.4 * |dcpu / cpu| + 0.4 * |dmem / mem| + 0.2 * |drep / rep|,
\*   roi = |benefit| / (cost + 1e-6)
\* on the (requests + limits) / 2 averages.  With B and T the benefit and the
\* cost times 10 * cpu * mem * rep and thr = p / q, roi < thr is
\* |B| * q - p * T < p * (10 * cpu * mem * rep) * 1e-6; the right side lies
\* in [0, 1) for the amounts of the model, so for p > 0 this is
\* |B| * q <= p * T, and for p = 0 it is false.
MoveRoiBelow(old, new, thr) ==
    LET cpu2 == old.requests.cpu + old.limits.cpu
        mem2 == old.requests.memory + old.limits.memory
        dcpu == (new.requests.cpu + new.limits.cpu) - cpu2
        dmem == (new.requests.memory + new.limits.memory) - mem2
        drep == new.replica - old.replica
        B == 5 * (dcpu * mem2 + dmem * cpu2) * old.replica
        T == 4 * (Abs(dcpu) * mem2 + Abs(dmem) * cpu2) * old.replica
             + 2 * Abs(drep) * cpu2 * mem2
    IN  thr.num > 0 /\ Abs(B) * thr.den <= thr.num * T

C12_HealthyIsNoOp ==
    Planned =>
        \A svc \in DOMAIN decisions :
            (/\ HasTag(svc, "qos_healthy") /\ HasTag(svc, "qoe_healthy")
             /\ ~ HasTag(svc, "self_heal")) =>
                /\ decisions[svc] = None
                /\ new_configs[svc] = current_configs[svc]
                /\ svc \notin DOMAIN system_situations

\* C12: a healthy verdict planned under the threshold 0, which suppresses no
\* move by its ROI.
C12_Witness ==
    /\ Planned
    /\ roi_threshold = [num |-> 0, den |-> 1]
    /\ \E svc \in DOMAIN decisions :
        /\ HasTag(svc, "qos_healthy") /\ HasTag(svc, "qoe_healthy")
        /\ analysis_results[svc].qos_unhealthy_metrics = {}
        /\ decisions[svc] = None
        /\ new_configs[svc] = current_configs[svc]

QosKnobs(c) == [requests |-> c.requests, limits |-> c.limits, replica |-> c.replica]

\* C13: when the verdict has QoE flags, an empty QoS flag set and no
\* self_heal, the target config and the decision differ from the current
\* config at most in song_quality, cache_size and preload_song: requests,
\* limits and replica are unchanged.
C13_QoeMoveKeepsQosKnobs ==
    Planned =>
        \A svc \in DOMAIN decisions :
            (/\ analysis_results[svc].qoe_unhealthy_metrics # {}
             /\ analysis_results[svc].qos_unhealthy_metrics = {}
             /\ ~ HasTag(svc, "self_heal")) =>
                /\ QosKnobs(new_configs[svc]) = QosKnobs(current_configs[svc])
                /\ decisions[svc] # None =>
                      QosKnobs(decisions[svc]) = QosKnobs(current_configs[svc])

\* The verdict of svc reaches the QoS rules: a QoS tier below healthy and no
\* self-heal.
QosVerdict(svc) ==
    /\ HasTag(svc, "qos_warning") \/ HasTag(svc, "qos_unhealthy")
    /\ ~ HasTag(svc, "self_heal")

\* C26: under a qos_warning verdict the decision moves limits only: its
\* requests.cpu and requests.memory are those of the current config.
C26_WarningKeepsRequests ==
    Planned =>
        \A svc \in DOMAIN decisions :
            (/\ HasTag(svc, "qos_warning") /\ ~ HasTag(svc, "self_heal")
             /\ decisions[svc] # None) =>
                /\ decisions[svc].requests.cpu = current_configs[svc].requests.cpu
                /\ decisions[svc].requests.memory = current_configs[svc].requests.memory

\* A CPU or memory limit of config c is at its maximum.
LimitAtMaximum(c) == c.limits.cpu >= max_cpu \/ c.limits.memory >= max_memory

\* C27: in a QoS decision the replica count moves by at most 1 and stays in
\* [min_replica, max_replica]; it goes up only when a CPU or memory limit
\* (of the current config or of the decision) is at its maximum and
\* latency_avg_high or error_rate_high is flagged, and down only when cpu_low
\* and memory_low are both flagged.
C27_ReplicaRule ==
    Planned =>
        \A svc \in DOMAIN decisions :
            (QosVerdict(svc) /\ decisions[svc] # None) =>
                LET old == current_configs[svc].replica
                    new == decisions[svc].replica
                IN  /\ new \in {old - 1, old, old + 1}
                    /\ min_replica <= new /\ new <= max_replica
                    /\ new = old + 1 =>
                          /\ LimitAtMaximum(current_configs[svc])
                                \/ LimitAtMaximum(decisions[svc])
                          /\ HasFlag(svc, "latency_avg_high")
                                \/ HasFlag(svc, "error_rate_high")
                    /\ new = old - 1 =>
                          HasFlag(svc, "cpu_low") /\ HasFlag(svc, "memory_low")

\* The QoE rule step as the rules read, knob by knob.
RuleSongQuality(flags, song_quality) ==
    IF {"playback_latency_high", "download_time_high"} \subseteq flags
    THEN (IF song_quality - 1 < 1 THEN 1 ELSE song_quality - 1)
    ELSE IF {"playback_latency_low", "download_time_low"} \subseteq flags
    THEN (IF song_quality + 1 > 3 THEN 3 ELSE song_quality + 1)
    ELSE song_quality

RuleCacheSize(flags, cache_size) ==
    IF "cache_hit_low" \in flags THEN cache_size + 500 ELSE cache_size

RulePreloadSong(flags, preload_song) ==
    IF {"download_time_high", "cache_hit_low"} \subseteq flags
    THEN (IF preload_song - 2 < 0 THEN 0 ELSE preload_song - 2)
    ELSE IF "download_time_low" \in flags
    THEN (IF preload_song + 2 > 10 THEN 10 ELSE preload_song + 2)
    ELSE preload_song

\* C28: the QoE knobs of a decision made for a qoe_unhealthy verdict are the
\* current ones after the rule step: song_quality one down (floor 1) on
\* playback_latency_high and download_time_high, one up (cap 3) on
\* playback_latency_low and download_time_low; cache_size 500 up on
\* cache_hit_low; preload_song 2 down (floor 0) on download_time_high and
\* cache_hit_low, 2 up (cap 10) on download_time_low; else unchanged.
C28_QoeRuleStep ==
    Planned =>
        \A svc \in DOMAIN decisions :
            (/\ HasTag(svc, "qoe_unhealthy") /\ ~ HasTag(svc, "self_heal")
             /\ decisions[svc] # None) =>
                LET flags == analysis_results[svc].qoe_unhealthy_metrics
                    old == current_configs[svc]
                    new == decisions[svc]
                IN  /\ new.song_quality = RuleSongQuality(flags, old.song_quality)
                    /\ new.cache_size = RuleCacheSize(flags, old.cache_size)
                    /\ new.preload_song = RulePreloadSong(flags, old.preload_song)

\* C28: a decision at the floors: song_quality stays 1 and preload_song stays
\* 0 under playback_latency_high, download_time_high and cache_hit_low, and
\* cache_size has grown by 500.
C28_Witness ==
    /\ Planned
    /\ \E svc \in DOMAIN decisions :
        /\ decisions[svc] # None
        /\ HasTag(svc, "qoe_unhealthy") /\ ~ HasTag(svc, "self_heal")
        /\ {"playback_latency_high", "download_time_high", "cache_hit_low"}
              \subseteq analysis_results[svc].qoe_unhealthy_metrics
        /\ current_configs[svc].song_quality = 1 /\ decisions[svc].song_quality = 1
        /\ current_configs[svc].preload_song = 0 /\ decisions[svc].preload_song = 0
        /\ decisions[svc].cache_size = current_configs[svc].cache_size + 500

\* The config the rules of _decide_action adopt for svc before the ROI stage.
AdoptedConfig(svc) ==
    LET r == analysis_results[svc]
        afterQoe == IF HasTag(svc, "qoe_unhealthy")
                    THEN _adopt_qoe_unhealthy_situation(r.qoe_unhealthy_metrics,
                                                        current_configs[svc])
                    ELSE current_configs[svc]
    IN  IF HasTag(svc, "qos_warning")
        THEN _adopt_qos_warning_situation(r.qos_unhealthy_metrics, afterQoe)
        ELSE _adopt_qos_unhealthy_situation(r.qos_unhealthy_metrics, afterQoe)

\* The candidates of the ROI stage of svc.
CandidatesOf(svc) ==
    LET adopted == AdoptedConfig(svc)
    IN  Candidates(adopted, adopted.requests.cpu + adopted.limits.cpu,
                   analysis_results[svc].latency_avg)

\* Candidate a is no worse than b on both objectives and strictly better on
\* one: cpu_after and latency_after (a fraction), both minimised.
StrictlyDominates(a, b) ==
    LET la == a.latency_after
        lb == b.latency_after
        latencyNoWorse == la.num * lb.den <= lb.num * la.den
        latencyBetter == la.num * lb.den < lb.num * la.den
    IN  /\ a.cpu_after <= b.cpu_after /\ latencyNoWorse
        /\ a.cpu_after < b.cpu_after \/ latencyBetter

\* C30: the frontier of the candidates is exactly the candidates no other
\* candidate dominates, it is not empty, and a decision of the ROI stage is
\* the config of a frontier candidate whose ROI no frontier candidate exceeds.
C30_ParetoThenBestRoi ==
    Planned =>
        \A svc \in DOMAIN decisions :
            QosVerdict(svc) =>
                LET config == current_configs[svc]
                    adopted == AdoptedConfig(svc)
                    cn2 == adopted.requests.cpu + adopted.limits.cpu
                    candidates == CandidatesOf(svc)
                    frontier == _pareto_frontier(candidates)
                    undominated ==
                        SelectSeq(candidates,
                                  LAMBDA c : ~ \E j \in 1..Len(candidates) :
                                                 StrictlyDominates(candidates[j], c))
                    K == 5 * (config.requests.cpu + config.limits.cpu)
                           * (config.requests.memory + config.limits.memory)
                           * config.replica
                    Roi(k) == LoopRoi(frontier[k], config, adopted, cn2)
                IN  /\ frontier = undominated
                    /\ Len(frontier) > 0
                    /\ decisions[svc] # None =>
                          \E k \in 1..Len(frontier) :
                              /\ decisions[svc] = frontier[k].config
                              /\ \A j \in 1..Len(frontier) :
                                    ~ RoiGreater(Roi(j).N, Roi(j).T, Roi(k).N, Roi(k).T, K)

\* C30: a decision taken from a frontier that dropped a dominated candidate
\* and kept two equal ones (cpu_now - 250 and cpu_now both clamp to min_cpu).
C30_Witness ==
    /\ Planned
    /\ \E svc \in DOMAIN decisions :
        /\ QosVerdict(svc) /\ decisions[svc] # None
        /\ LET frontier == _pareto_frontier(CandidatesOf(svc))
           IN  /\ Len(frontier) = 2
               /\ frontier[1] = frontier[2]
               /\ decisions[svc] = frontier[1].config

\* cache_size of config c lies within its limits.
CacheSizeWithinLimits(c) ==
    min_cache_size <= c.cache_size /\ c.cache_size <= max_cache_size

\* C23: the config the driver commits after a cycle (new_configs) has
\* cache_size within its limits whenever the current config has, also when
\* cache_hit_low is flagged.
C23_CacheSizeWithinLimits ==
    Planned =>
        \A svc \in DOMAIN new_configs :
            CacheSizeWithinLimits(current_configs[svc]) =>
                CacheSizeWithinLimits(new_configs[svc])

\* The step is a call of evaluate_services that returned.
EvaluateServicesReturned == pc = "plan" /\ pc' = "execute"

C35_CpuFollowsFlag ==
    Planned =>
        \A svc \in DOMAIN decisions :
            (QosVerdict(svc) /\ decisions[svc] # None) =>
                /\ HasFlag(svc, "cpu_high") =>
                      /\ decisions[svc].requests.cpu >= current_configs[svc].requests.cpu
                      /\ decisions[svc].limits.cpu >= current_configs[svc].limits.cpu
                /\ HasFlag(svc, "cpu_low") =>
                      /\ decisions[svc].requests.cpu <= current_configs[svc].requests.cpu
                      /\ decisions[svc].limits.cpu <= current_configs[svc].limits.cpu

\* The service got a decision under one of the two QoS tags.
QosDecision(svc) ==
    /\ svc \in DOMAIN system_situations
    /\ system_situations[svc] \in {"qos_warning", "qos_unhealthy"}
    /\ decisions[svc] # None

\* C36: with roi_threshold > 0 no qos_warning or qos_unhealthy decision has
\* a target equal to the current config.
C36_NoUnchangedQosDecision ==
    (Planned /\ roi_threshold.num > 0) =>
        \A svc \in DOMAIN decisions :
            QosDecision(svc) => decisions[svc] # current_configs[svc]

\* C36 witness: with roi_threshold > 0, a QoS-only verdict whose selected
\* move is the current config itself was returned as a no-op.
C36_Witness ==
    /\ Planned /\ roi_threshold.num > 0
    /\ \E svc \in DOMAIN decisions :
          /\ QosOnlyVerdict(svc)
          /\ SelectedMove(svc) = current_configs[svc]
          /\ decisions[svc] = None

\* ------------------------------------------------- properties: the Executor

ApplyOps == {"deployment.sh", "rollout_restart_scale", "set_resources_scale"}

CmdIndexes == 1..Len(cmds)

DryRunFailed == \E i \in CmdIndexes : cmds[i].op = "dry_run" /\ cmds[i].rc # 0

\* C1: after a failed dry-run execute_plan has returned failure, no
\* deployment is modified and no backup, apply or redeploy command is
\* issued; every dry-run of the plan precedes the first backup or apply
\* command, and by then every service with a non-null decision has passed it.
C1_DryRunFailureAborts ==
    /\ DryRunFailed =>
          /\ pc = "returned" /\ result = FALSE
          /\ live = configs
          /\ \A i \in CmdIndexes : cmds[i].op = "dry_run"
    /\ \A i, j \in CmdIndexes :
          (i < j /\ cmds[j].op = "dry_run") => cmds[i].op = "dry_run"
    /\ (\E i \in CmdIndexes : cmds[i].op # "dry_run") =>
          \A svc \in ServiceSet :
              plan[svc] # None =>
                  \E i \in CmdIndexes :
                      cmds[i].op = "dry_run" /\ cmds[i].svc = svc /\ cmds[i].rc = 0

\* C1: the dry-run of the second service fails after the first has passed.
C1_Witness ==
    /\ pc = "returned" /\ result = FALSE
    /\ Len(cmds) = 2
    /\ cmds[1].op = "dry_run" /\ cmds[1].rc = 0
    /\ cmds[2].op = "dry_run" /\ cmds[2].rc # 0
    /\ live = configs

\* C2: when the apply command of the k-th service fails (and every rollback
\* command that was issued succeeded), execute_plan returns failure and every
\* service applied earlier in the transaction is back at its pre-cycle
\* configuration.
C2_EarlierServicesRestored ==
    (/\ pc = "returned"
     /\ \A i \in CmdIndexes : cmds[i].op = "rollback" => cmds[i].rc = 0) =>
        \A k \in CmdIndexes :
            (cmds[k].op \in ApplyOps /\ cmds[k].rc # 0) =>
                /\ result = FALSE
                /\ \A i \in 1..(k - 1) :
                      cmds[i].op \in ApplyOps =>
                          live[cmds[i].svc] = configs[cmds[i].svc]

\* C8: when every non-null decision of the plan carries the Planner's tag
\* qos_warning or qos_unhealthy and execute_plan returned success, a
\* set-resources and scale command was issued for each such service with the
\* target's values: limits and replicas under qos_warning, requests, limits
\* and replicas under qos_unhealthy.
C8_PlannerTagsApplied ==
    (/\ pc = "returned" /\ result = TRUE
     /\ \A svc \in DOMAIN system_situations :
           system_situations[svc] \in {"qos_warning", "qos_unhealthy"}) =>
        \A svc \in DOMAIN system_situations :
            \E i \in CmdIndexes :
                /\ cmds[i].op = "set_resources_scale" /\ cmds[i].svc = svc
                /\ cmds[i].args.limits = plan[svc].limits
                /\ cmds[i].args.replicas = plan[svc].replica
                /\ cmds[i].args.requests
                     = IF system_situations[svc] = "qos_unhealthy"
                       THEN plan[svc].requests ELSE None

\* The position in cmds of the apply command of svc (0 when it has none).
ApplyIndex(svc) ==
    IF \E i \in CmdIndexes : cmds[i].op \in ApplyOps /\ cmds[i].svc = svc
    THEN CHOOSE i \in CmdIndexes : cmds[i].op \in ApplyOps /\ cmds[i].svc = svc
    ELSE 0

\* svc has been visited by the rollback.
RolledBack(svc) == \E i \in CmdIndexes : cmds[i].op = "rollback" /\ cmds[i].svc = svc

\* The step issues the rollback command of svc.
RollbackVisits(svc) ==
    /\ Len(cmds') = Len(cmds) + 1
    /\ cmds'[Len(cmds')].op = "rollback"
    /\ cmds'[Len(cmds')].svc = svc

\* C21: the rollback visits the applied services in the reverse of the order
\* of their apply commands: when it visits a service, no service whose apply
\* command came later and changed its deployment is still waiting for its
\* visit.
C21_RollbackInReverseOrder ==
    [][\A svc \in ServiceSet :
          RollbackVisits(svc) =>
              \A later \in ServiceSet :
                  (/\ ApplyIndex(svc) > 0
                   /\ ApplyIndex(later) > ApplyIndex(svc)
                   /\ live[later] # configs[later]) => RolledBack(later)]_vars

\* C22: every apply, restart or redeploy command of a service comes after a
\* backup command of that service that succeeded.
C22_BackupBeforeApply ==
    \A k \in CmdIndexes :
        cmds[k].op \in ApplyOps =>
            \E i \in 1..(k - 1) :
                cmds[i].op = "backup" /\ cmds[i].svc = cmds[k].svc /\ cmds[i].rc = 0

\* An apply command of the transaction failed.
ApplyFailed == \E k \in CmdIndexes : cmds[k].op \in ApplyOps /\ cmds[k].rc # 0

\* C31: when an apply command failed, execute_plan returns failure after the
\* rollback went through every entry of backups: a restore command was
\* issued for every service whose backup path is set and whose file exists,
\* whatever the earlier restore commands returned, and none for a service
\* without a backup.
C31_RollbackVisitsEveryBackup ==
    (pc = "returned" /\ ApplyFailed) =>
        /\ result = FALSE
        /\ \A i \in 1..Len(backups) :
              LET svc == backups[i][1]
                  path == backups[i][2]
                  restored == \E j \in CmdIndexes :
                                  /\ cmds[j].op = "rollback" /\ cmds[j].svc = svc
                                  /\ \A k \in CmdIndexes : cmds[k].op \in ApplyOps => k < j
              IN  IF path # None /\ path \in DOMAIN files THEN restored
                  ELSE ~ RolledBack(svc)

\* C31: the restore command of svc1 returned non-zero and the restore
\* command of svc2 was issued after it.
C31_Witness ==
    /\ pc = "returned" /\ result = FALSE /\ ApplyFailed
    /\ \E i, j \in CmdIndexes :
          /\ i < j
          /\ cmds[i].op = "rollback" /\ cmds[i].svc = "svc1" /\ cmds[i].rc # 0
          /\ cmds[j].op = "rollback" /\ cmds[j].svc = "svc2"

\* The config the driver commits for a service after a successful
\* transaction: the decision, or the previous config where it is null.
Committed(svc) == IF plan[svc] # None THEN plan[svc] ELSE configs[svc]

\* C33: after a transaction that execute_plan reports as successful, the
\* config the driver commits for each service has the requests, limits and
\* replica that are live on the cluster (the two were equal before).
C33_ViewEqualsCluster ==
    (pc = "returned" /\ result = TRUE) =>
        \A svc \in ServiceSet :
            /\ Committed(svc).requests = live[svc].requests
            /\ Committed(svc).limits = live[svc].limits
            /\ Committed(svc).replica = live[svc].replica

\* The apply command of a service ran and returned 0.
AppliedOk(svc) ==
    \E k \in CmdIndexes : cmds[k].op \in ApplyOps /\ cmds[k].svc = svc /\ cmds[k].rc = 0

\* A self_heal_hard redeploy ran in the transaction.
Redeployed == \E k \in CmdIndexes : cmds[k].op = "deployment.sh"

\* C34: when execute_plan returns success, every service with a non-null
\* decision had its own apply command return 0, or a self_heal_hard
\* redeploy ran in the transaction.
C34_SuccessMeansApplied ==
    (pc = "returned" /\ result = TRUE) =>
        \A svc \in ServiceSet : plan[svc] # None => (AppliedOk(svc) \/ Redeployed)

\* --------------------------------------------------- properties: the driver

\* The cycle's executing stage is over: the Planner's decisions exist and the
\* driver is past the call of the Executor.
ExecutingStageOver == decisions # None /\ pc # "execute"

AllDecisionsNull == \A svc \in DOMAIN decisions : decisions[svc] = None

\* C32: in a cycle whose decisions are all null, the executing stage issues
\* no command, the Executor reports success to the driver, and the
\* authoritative config stays as it was.
C32_NullPlanIsNoOp ==
    (ExecutingStageOver /\ AllDecisionsNull) =>
        /\ cmds = <<>>
        /\ current_configs = new_configs
        /\ pc # "crashed"
        /\ success # None
        /\ success = TRUE

\* C9: in a cycle whose telemetry has no available replica of a service, the
\* Analyzer flags no_replicas and emits self_heal, the Planner decides
\* self_heal_hard, and by the end of the cycle the full redeployment script
\* has been invoked.
C9_OutageRedeploys ==
    ExecutingStageOver =>
        \A svc \in DOMAIN analysis_results :
            analysis_results[svc].available_replicas <= 0 =>
                /\ "no_replicas" \in analysis_results[svc].qos_unhealthy_metrics
                /\ InList("self_heal", analysis_results[svc].adaptation)
                /\ svc \in DOMAIN system_situations
                /\ system_situations[svc] = "self_heal_hard"
                /\ \E i \in CmdIndexes : cmds[i].op = "deployment.sh"

\* ------------------------------------------------- properties: the Analyzer

\* process_data has returned results in this cycle.
Analyzed == analysis_results # None

\* The window of a service and the field of the result that holds its mean.
WindowOf ==
    [cpu |-> "cpu_deque", memory |-> "memory_deque", latency_avg |-> "latency_avg_deque",
     error_rate |-> "error_rate_deque", disk_usage |-> "disk_usage",
     cache_hit_ratio |-> "cache_hit_ratio", avg_playback_latency |-> "avg_playback_latency",
     avg_download_time |-> "avg_download_time"]

\* new holds the at most window_size most recent samples of old followed by x.
MostRecent(old, new, x) ==
    /\ Len(new) = Min(Len(old) + 1, window_size)
    /\ new[Len(new)] = x
    /\ \A i \in 1..(Len(new) - 1) : new[i] = old[Len(old) - (Len(new) - 1) + i]

\* The step is a call of process_data that returned.
ProcessDataReturned == pc = "analyze" /\ pc' = "analyze"

\* qos_data' holds metric m for svc.
Fetched(m, svc) == m \in DOMAIN qos_data' /\ svc \in DOMAIN qos_data'[m]

\* C15: when the fetch of a QoS metric failed in a cycle, process_data
\* appends no sample to the window of that metric (CPU, memory) and derives
\* no no_replicas flag from a replica count that was not fetched.
C15_FailedMetricIsMissing ==
    [][ProcessDataReturned =>
          \A svc \in DriverServices :
              /\ ~ Fetched(M_cpu, svc) =>
                    service_deque'[svc]["cpu_deque"] = service_deque[svc]["cpu_deque"]
              /\ ~ Fetched(M_memory, svc) =>
                    service_deque'[svc]["memory_deque"] = service_deque[svc]["memory_deque"]
              /\ ~ Fetched(M_replicas, svc) =>
                    "no_replicas" \notin analysis_results'[svc].qos_unhealthy_metrics]_vars

\* The fill of a service's window, as in confidence = len / window_size >= 0.8.
WindowFilled(svc) == 5 * Len(service_deque[svc]["cpu_deque"]) >= 4 * window_size

\* C16: while the window of a service holds fewer than 80% of its samples the
\* Analyzer emits no result for it, and the Planner decides nothing for it.
C16_ColdStartSuppressed ==
    \A svc \in DriverServices :
        ~ WindowFilled(svc) =>
            /\ Analyzed => svc \notin DOMAIN analysis_results
            /\ decisions # None => (svc \notin DOMAIN decisions \/ decisions[svc] = None)

\* C17: every window holds at most window_size samples; a call of
\* process_data leaves in every window the most recent samples in arrival
\* order, the newest being this cycle's sample (the oldest is evicted from a
\* full window); and every average of the result, and the flag compared with
\* a threshold, is the arithmetic mean of exactly the samples of the window.
C17_WindowIsFifoMean ==
    /\ [](\A svc \in DriverServices : \A k \in deque_keys :
             Len(service_deque[svc][k]) <= window_size)
    /\ [](Analyzed =>
             \A svc \in DOMAIN analysis_results :
                 /\ \A f \in DOMAIN WindowOf :
                       LET w == service_deque[svc][WindowOf[f]]
                       IN  /\ analysis_results[svc][f].num = Sum(w)
                           /\ analysis_results[svc][f].den = Len(w)
                 /\ LET w == service_deque[svc]["cpu_deque"]
                     IN  "cpu_high" \in analysis_results[svc].qos_unhealthy_metrics
                            <=> Sum(w) > cpu_threshold_high * Len(w))
    /\ [][ProcessDataReturned =>
             \A svc \in DriverServices :
                 LET old == service_deque[svc]
                     new == service_deque'[svc]
                     values == Outputs(qos_data', svc)
                 IN  /\ MostRecent(old["cpu_deque"], new["cpu_deque"], Get(values, M_cpu))
                     /\ MostRecent(old["memory_deque"], new["memory_deque"],
                                    Get(values, M_memory))
                     /\ MostRecent(old["latency_avg_deque"], new["latency_avg_deque"],
                                    Get(values, M_latency) \div NsPerMs)
                     /\ MostRecent(old["disk_usage"], new["disk_usage"],
                                    qoe_data'.disk_usage)
                     /\ MostRecent(old["avg_playback_latency"], new["avg_playback_latency"],
                                    qoe_data'.avg_playback_latency)
                     /\ MostRecent(old["avg_download_time"], new["avg_download_time"],
                                    qoe_data'.avg_download_time)
                     /\ \A k \in deque_keys :
                           /\ Len(new[k]) = Min(Len(old[k]) + 1, window_size)
                           /\ SubSeq(new[k], 1, Len(new[k]) - 1)
                                = SubSeq(old[k], Len(old[k]) - Len(new[k]) + 2, Len(old[k]))]_vars

\* C17: in the seventh cycle the window has evicted two samples: it is full,
\* holds samples of different cycles and the result carries its mean.
C17_Witness ==
    /\ pc = "analyze" /\ cycle_count = 7 /\ Analyzed
    /\ \E svc \in DOMAIN analysis_results :
          LET w == service_deque[svc]["cpu_deque"]
          IN  /\ Len(w) = window_size
              /\ w[1] # w[window_size]
              /\ analysis_results[svc].cpu = [num |-> Sum(w), den |-> window_size]

\* The QoS tier tags of a result, in the order of its tag list.
TierTags(r) == SelectSeq(r.adaptation,
                         LAMBDA t : t \in {"qos_healthy", "qos_warning", "qos_unhealthy"})

\* The tier the rule gives for the utility U = u.num / u.den and the flags.
TierOf(u, flags) ==
    IF 10 * u.num >= 8 * u.den /\ flags = {} THEN "qos_healthy"
    ELSE IF 10 * u.num < 5 * u.den \/ Cardinality(flags) >= 2 THEN "qos_unhealthy"
    ELSE "qos_warning"

\* C18: every result carries exactly one QoS tier tag: qos_healthy when
\* U >= 0.8 and the QoS flag set is empty, otherwise qos_unhealthy when
\* U < 0.5 or the flag set has at least 2 members, otherwise qos_warning.
C18_ExactlyOneTier ==
    Analyzed =>
        \A svc \in DOMAIN analysis_results :
            TierTags(analysis_results[svc])
              = <<TierOf(analysis_results[svc].qos_overall_utility,
                         analysis_results[svc].qos_unhealthy_metrics)>>

\* C18: results of all three tiers occur; here a healthy one over a window
\* of several cycles.
C18_Witness ==
    /\ Analyzed /\ cycle_count >= 2
    /\ \E svc \in DOMAIN analysis_results :
          /\ TierTags(analysis_results[svc]) = <<"qos_healthy">>
          /\ analysis_results[svc].qos_unhealthy_metrics = {}

\* C19: the utility of every result lies in [0, 1].
C19_UtilityInUnitInterval ==
    Analyzed =>
        \A svc \in DOMAIN analysis_results :
            LET u == analysis_results[svc].qos_overall_utility
            IN  0 <= u.num /\ u.num <= u.den

\* The hit percentage of a [hits, misses] pair: 100 * hits / (hits + misses),
\* and 0 when there was no request.
HitPercentage(pair) ==
    IF pair[1] + pair[2] > 0 THEN (100 * pair[1]) \div (pair[1] + pair[2]) ELSE 0

\* C29: the sample process_data appends to the cache-hit window of a cycle is
\* the hit percentage of the cycle's [hits, misses] pair, so that in the
\* first cycle cache_hit_low is flagged only for a hit percentage below the
\* low threshold.
C29_CacheHitRatioAppended ==
    [][ProcessDataReturned =>
          \A svc \in DriverServices :
              LET window == service_deque'[svc]["cache_hit_ratio"]
                  percent == HitPercentage(qoe_data'.cache_hit_ratio)
              IN  /\ window[Len(window)] = percent
                  /\ (/\ Len(window) = 1
                      /\ "cache_hit_low" \in analysis_results'[svc].qoe_unhealthy_metrics) =>
                        percent < cache_hit_ratio_threshold_low]_vars

\* --------------------------------------------------- properties: the driver

\* A fetch of this cycle failed: the QoE request, or a QoS metric.
FetchFailed ==
    /\ qos_data # None
    /\ qoe_data = None \/ DOMAIN qos_data # analyze_metrics

\* C14: a cycle with a failed Monitor fetch is not aborted: the driver does
\* not end in it.
C14_FetchFailureSurvived == FetchFailed => pc # "crashed"

\* The driver's test takes the QoE branch.
QoeBranchTaken == DictEqualsStr(system_situations, "qoe_unhealthy")

\* C20: when the Planner's situation of a service is qoe_unhealthy, the
\* driver's test takes the QoE branch, the call of the QoE apply path
\* returns a verdict, and the authoritative config is the plan's target
\* exactly when the verdict is success.
C20_QoePathCommits ==
    ExecutingStageOver =>
        ((\E svc \in DOMAIN system_situations : system_situations[svc] = "qoe_unhealthy") =>
            /\ QoeBranchTaken
            /\ exception = None /\ success # None
            /\ success = TRUE => current_configs = new_configs
            /\ success = FALSE => current_configs # new_configs)

\* The Planner has returned its decisions in this cycle.
PlanningStageOver == decisions # None

\* C37: through Analyzer then Planner no service gets self_heal_soft: a
\* verdict carries self_heal only together with no_replicas, and its
\* decision is self_heal_hard.
C37_SelfHealIsAlwaysHard ==
    PlanningStageOver =>
        \A svc \in DOMAIN analysis_results :
            /\ svc \in DOMAIN system_situations =>
                  system_situations[svc] # "self_heal_soft"
            /\ InList("self_heal", analysis_results[svc].adaptation) =>
                  /\ "no_replicas" \in analysis_results[svc].qos_unhealthy_metrics
                  /\ svc \in DOMAIN system_situations
                  /\ system_situations[svc] = "self_heal_hard"

\* C37 witness: a verdict of the Analyzer with self_heal reached the Planner,
\* which decided self_heal_hard with the current config as target.
C37_Witness ==
    /\ PlanningStageOver
    /\ \E svc \in DOMAIN analysis_results :
          /\ InList("self_heal", analysis_results[svc].adaptation)
          /\ svc \in DOMAIN system_situations
          /\ system_situations[svc] = "self_heal_hard"
          /\ decisions[svc] = current_configs[svc]

\* ------------------------------------------------ properties: the Knowledge

\* What the accessor of the last write returns for the written entry:
\* get_threshold()[metric][key] (get_threshold()[metric] for the key
\* "error_rate", under which set_threshold stores the value as the metric's
\* entry), get_weight()[metric], get_resources()[service_name].
AccessorValue ==
    CASE last_write.op = "set_threshold" ->
            IF last_write.key = "error_rate"
            THEN get_threshold(knowledge.data).dict[last_write.name]
            ELSE get_threshold(knowledge.data).dict[last_write.name].dict[last_write.key]
      [] last_write.op = "set_weight" -> get_weight(knowledge.data).dict[last_write.name]
      [] last_write.op = "set_resource_config" ->
            get_resources(knowledge.data).dict[last_write.name]

\* reload_if_updated has been called after the last setter call, with no
\* other write to the file in between.
ReloadedAfterWrite == last_write # None /\ last_write.reloaded

\* C25: after a setter wrote a value and reload_if_updated was called, the
\* in-memory document is the document of the file and the accessor returns
\* the written value.
C25_KnowledgeRoundTrip ==
    ReloadedAfterWrite =>
        /\ knowledge.data = json_load(knowledge_file.text)
        /\ AccessorValue = last_write.value

\* C25: set_threshold on the document re-read after somebody else rewrote
\* the file (it has no weights), followed by a reload_if_updated that
\* re-read the file the setter saved.
C25_Witness ==
    /\ ReloadedAfterWrite
    /\ last_write.op = "set_threshold" /\ last_write.key = "high"
    /\ knowledge.last_modified = knowledge_file.mtime
    /\ knowledge.last_modified = MaxClock
    /\ "weights" \notin DOMAIN knowledge.data.dict
    /\ get_threshold(knowledge.data).dict["cpu"].dict["high"] = PyInt(70)

\* ------------------------------------------------ properties: the room manager

\* The rooms that list the user as a member.
RoomsOf(u) == {r \in DOMAIN rooms : u \in MemberIds(rooms[r].members)}

\* C38: after any sequence of create_room, join_room and leave_room calls
\* every user is a member of at most one room, and user_rooms[u] = r exactly
\* when room r exists and u is one of its members.
C38_MembershipAgreesWithIndex ==
    pc = "app" =>
        \A u \in Users :
            /\ Cardinality(RoomsOf(u)) <= 1
            /\ \A r \in RoomIds :
                  (u \in DOMAIN user_rooms /\ user_rooms[u] = r) <=> r \in RoomsOf(u)

\* The songs of the queue as objects, and a song without its position.
Objects(queue) == {queue[i].obj : i \in 1..Len(queue)}
Unplaced(song) == [song EXCEPT !.position = 0]

\* C39: a reorder_queue call that returns true leaves the queue with the
\* same songs as before, each once, every position equal to the index; one
\* that returns false leaves the queue as it was.
C39_ReorderOnlyPermutes ==
    [][(last_call'.op = "reorder_queue") =>
          LET before == rooms[last_call'.room_id].queue
              after == rooms'[last_call'.room_id].queue
          IN  IF last_call'.ret
              THEN /\ Len(after) = Len(before)
                   /\ Objects(after) = Objects(before)
                   /\ \A i, j \in 1..Len(after) : after[i].obj = after[j].obj => i = j
                   /\ \A i \in 1..Len(after) :
                         /\ after[i].position = i - 1
                         /\ \E j \in 1..Len(before) : Unplaced(before[j]) = Unplaced(after[i])
              ELSE after = before]_vars

\* C40: a step that removes the last websocket connection of a room that
\* exists leaves the room with a pending cleanup timer, and with a pending
\* pause timer when its music is playing.
C40_TimersStartAtZeroConnections ==
    [][\A r \in DOMAIN rooms' :
          (r \in DOMAIN active_connections /\ r \notin DOMAIN active_connections') =>
              /\ r \in DOMAIN cleanup_timers'
              /\ (rooms'[r].current_song # None /\ rooms'[r].is_playing) =>
                     r \in DOMAIN pause_timers']_vars

=============================================================================
